---- MODULE Spec2Model ----
(***************************************************************************)
(* Scrollback: message tracking and anchor lifecycle.                      *)
(*                                                                         *)
(* The model covers MessageDetector (src/src/messageDetector.js),          *)
(* AnchorInjector (src/src/anchorInjector.js), AnchorGenerator             *)
(* (src/src/anchorGenerator.js), the bookkeeping maps of AnchorUI          *)
(* (src/src/anchorUI.js), the ChatGPT adapter's validity and role          *)
(* predicates (src/platform-adapters/chatgptAdapter.js) and the            *)
(* navigation handler of src/content/main.js.                              *)
(*                                                                         *)
(* The page is the environment: message elements are attached, detached    *)
(* and rewritten by the host page at any time.  Timers (the 150 ms         *)
(* debounce, the 800 ms post-navigation delay) are pending callbacks that  *)
(* fire at some later step; every handler runs to completion in one step   *)
(* (single UI thread).                                                     *)
(***************************************************************************)
EXTENDS Integers, Sequences, FiniteSets, TLC

(***************************************************************************)
(* Bounds of the model.                                                    *)
(***************************************************************************)
NumElems == 2
MaxNav == 2
MaxDomOps == 3
MaxTicks == 5

Elems == 1 .. NumElems
NoElem == 0

\* the conversation root of the page, when it has one
RootIds == {1, 2}
NoRoot == 0

Urls == {1, 2}

\* the adapters registered by content/main.js; "none": the hostname matches
\* no registered adapter
Platforms == {"chatgpt", "claude"}
NoPlatform == "none"

\* platformRouter.registerAdapter calls of content/main.js, in their order;
\* a hostname or a pattern is the sequence of its dot-separated labels
Adapters ==
  << [key |-> "chatgpt",
      hostnames |-> << <<"chatgpt", "com">>, <<"chat", "openai", "com">> >>],
     [key |-> "claude", hostnames |-> << <<"claude", "ai">> >>] >>

\* window.location.hostname of the pages the content script is loaded into
Hostnames ==
  { <<"chatgpt", "com">>, <<"chat", "openai", "com">>, <<"claude", "ai">>,
    <<"www", "chatgpt", "com">>, <<"claude", "ai", "example", "org">>,
    <<"openai", "com">>, <<"example", "org">>, <<"claude", "com">> }

\* hostname.includes(pattern): the pattern occurs in the hostname
Includes(hostname, pattern) ==
  \E k \in 0 .. (Len(hostname) - Len(pattern)) :
    \A j \in 1 .. Len(pattern) : hostname[k + j] = pattern[j]

\* PlatformRouter.detectPlatform: the key of the first registered adapter one
\* of whose patterns matches, null ("none") when there is none
detectPlatform(hostname) ==
  LET matching == {i \in DOMAIN Adapters :
                     \E p \in DOMAIN Adapters[i].hostnames :
                       Includes(hostname, Adapters[i].hostnames[p])}
  IN  IF matching = {} THEN NoPlatform
      ELSE Adapters[CHOOSE i \in matching : \A j \in matching : i <= j].key

\* time is counted in ticks of TickMs milliseconds
TickMs == 50
DebounceMs == 150

(***************************************************************************)
(* Text contents an element can have, as sequences of char codes:          *)
(*   1 "hi"   2 "hi " (differs by one trailing space)                      *)
(*   3 "hello world!!" (13 chars)   4 " " (empty once trimmed)             *)
(*   5 "aaa...a" (210 chars)   6 text 5 followed by 15 times "b"           *)
(*   7 "hello world!" (12 chars)                                           *)
(***************************************************************************)
TextTable ==
  << <<104, 105>>,
     <<104, 105, 32>>,
     <<104, 101, 108, 108, 111, 32, 119, 111, 114, 108, 100, 33, 33>>,
     <<32>>,
     [i \in 1 .. 210 |-> 97],
     [i \in 1 .. 225 |-> IF i <= 210 THEN 97 ELSE 98],
     <<104, 101, 108, 108, 111, 32, 119, 111, 114, 108, 100, 33>> >>

TextIds == 1 .. Len(TextTable)

Roles == {"user", "assistant"}

\* values of element.id / data-message-id; 0 stands for "neither attribute"
NoExt == 0
ExtIds == {0, 1}

Whitespace == {9, 10, 11, 12, 13, 32}

RECURSIVE TrimLeft(_)
TrimLeft(s) ==
  IF s # <<>> /\ Head(s) \in Whitespace THEN TrimLeft(Tail(s)) ELSE s

RECURSIVE TrimRight(_)
TrimRight(s) ==
  IF s # <<>> /\ s[Len(s)] \in Whitespace
    THEN TrimRight(SubSeq(s, 1, Len(s) - 1))
    ELSE s

\* String.prototype.trim
Trim(s) == TrimRight(TrimLeft(s))

\* String.prototype.substring(0, n)
Substring0(s, n) == IF Len(s) <= n THEN s ELSE SubSeq(s, 1, n)

HashPrefixLen == 200

(***************************************************************************)
(* simpleHash: hash = ((hash << 5) - hash) + char, truncated to a signed   *)
(* 32-bit integer after every character, then Math.abs(hash).toString(36). *)
(* The 32-bit value is kept as two 16-bit limbs <<hi, lo>>; toString(36)   *)
(* is injective, so the result is represented by the limbs of |hash|.      *)
(***************************************************************************)
Limb == 65536

HashStep(h, c) ==
  LET lo == 31 * h[2] + c
      hi == 31 * h[1] + (lo \div Limb)
  IN  << hi % Limb, lo % Limb >>

\* the loop body applied to the characters s[i] .. s[j]
RECURSIVE HashRun(_, _, _, _)
HashRun(h, s, i, j) ==
  IF i > j THEN h ELSE HashRun(HashStep(h, s[i]), s, i + 1, j)

\* the loop `for (i = 0; i < str.length; i++)` from character i on, taken in
\* runs of 16 characters whose value is computed before the next run starts
RECURSIVE HashFold(_, _, _)
HashFold(h, s, i) ==
  IF i > Len(s) THEN h
  ELSE LET j == IF i + 15 < Len(s) THEN i + 15 ELSE Len(s)
           run == HashRun(h, s, i, j)
       IN  IF run[1] >= 0 THEN HashFold(<<run[1], run[2]>>, s, j + 1) ELSE h

\* Math.abs of the signed 32-bit value held in the limbs
AbsLimbs(h) ==
  IF h[1] < 32768 THEN h
  ELSE LET lo == (Limb - h[2]) % Limb
           borrow == IF h[2] = 0 THEN 0 ELSE 1
       IN  << Limb - h[1] - borrow, lo >>

simpleHash(s) == AbsLimbs(HashFold(<<0, 0>>, s, 1))

NoHash == <<-1, -1>>

(***************************************************************************)
(* Anchor identifiers.  `anchor-${elementId}` is kind "ext";               *)
(* `anchor-${position}-${contentHash}-${sequence}` is kind "seq".          *)
(***************************************************************************)
NoId == [kind |-> "none", ext |-> 0, pos |-> 0, hash |-> NoHash, seq |-> 0]

VARIABLES
  \* the page
  dom,            \* attached message elements, in document order
  dataTurn,       \* element -> value of its data-turn attribute
  extId,          \* element -> element.id || data-message-id (NoExt: none)
  box,            \* element -> "ok" | "zero" (zero size) | "sys" (data-system-message)
  text,           \* element -> index of its textContent in TextTable
  container,      \* the element matching the container selector (NoRoot: none)
  observedRoot,   \* the element the MutationObserver is attached to (NoRoot: none)
  domOps,         \* number of page mutations so far
  \* MessageDetector
  onMessagesChanged, \* callback installed
  messages,       \* Map element -> message data, in insertion order
  observer,       \* this.observer is set
  isObserving,
  debounceTimer,  \* fire times of the pending debounce timeouts
  \* AnchorInjector
  injectedAnchors,
  \* AnchorGenerator
  anchorMap, idMap, contentCache, sequenceCounter,
  cachedText,     \* history: element -> the text its cached fingerprint was
                  \* computed from (0: no fingerprint cached)
  \* AnchorUI
  messageLines,   \* anchor ids of the lines, in linesContainer order
  messageElements, messageTexts,
  \* content/main.js
  navListening,   \* setupNavigationListener has run
  href, lastUrl,
  navCount,       \* number of navigations handled so far
  navPending,     \* navigations whose post-navigation callback is pending
  urlCheckInterval, \* number of URL polling intervals that are running
  urlChanges,     \* history: number of changes of location.href so far
  platform,       \* the adapter the router matches for the hostname
  phase,          \* "loading" | "unsupported" | "waiting" | "deferred" |
                  \* "ready" | "failed" | "timedout"
  checkCount,     \* navigation -> checkCount of its waitForClaudeChatReady
  pollCount,      \* runs of the container poll of initialize() so far
  readyWait,      \* waitForClaudeReady: checkCount, lastScrollHeight, and the
                  \* number of times its callback has been invoked
  scrollable,     \* scrollHeight of Claude's scrollable container
                  \* (NoScrollable: no element matches the selector)
  \* the environment
  hidden,         \* document.hidden
  fault,          \* element -> the call that throws for it ("none": none)
  now,            \* the time, in ticks
  \* history of the last step
  log,            \* passes run and events delivered by the last handler
  idCalls,        \* getOrCreateAnchorId calls made by the last handler
  oldElems,       \* the elements of the conversation navigated away from
  firstCallback,  \* time of the first observer callback since the last pass
  lastCallback    \* time of the latest observer callback

domVars == <<dom, dataTurn, extId, box, text, container, observedRoot, domOps>>
detVars == <<onMessagesChanged, messages, observer, isObserving, debounceTimer>>
genVars == <<anchorMap, idMap, contentCache, sequenceCounter, cachedText>>
uiVars == <<messageLines, messageElements, messageTexts>>
navVars == <<navListening, href, lastUrl, navCount, navPending,
            urlCheckInterval, urlChanges>>
histVars == <<log, idCalls, oldElems>>
startVars == <<platform, phase, checkCount, pollCount, readyWait, scrollable>>
envVars == <<hidden, fault, now>>
clockVars == <<firstCallback, lastCallback>>
vars == <<domVars, detVars, injectedAnchors, genVars, uiVars, navVars, histVars,
          startVars, envVars, clockVars>>

(***************************************************************************)
(* Sequence and map helpers.                                               *)
(***************************************************************************)
Range(s) == {s[i] : i \in DOMAIN s}

IndexOf(s, x) == CHOOSE i \in DOMAIN s : s[i] = x

InsertAt(s, i, x) == SubSeq(s, 1, i - 1) \o <<x>> \o SubSeq(s, i, Len(s))

Without(s, x) == SelectSeq(s, LAMBDA y : y # x)

\* Map.set / Map.delete on a map held as a function with a finite domain
MapSet(f, k, v) == [x \in DOMAIN f \cup {k} |-> IF x = k THEN v ELSE f[x]]

MapDelete(f, k) == [x \in DOMAIN f \ {k} |-> f[x]]

EmptyMap == [x \in {} |-> NoElem]

(***************************************************************************)
(* ChatGPT adapter predicates.                                             *)
(***************************************************************************)
TrimmedText(e) == Trim(TextTable[text[e]])

chatgptIsValidMessage(e) ==
  /\ box[e] # "zero"
  /\ Len(TrimmedText(e)) # 0
  /\ box[e] # "sys"

chatgptGetMessageRole(e) == IF dataTurn[e] = "user" THEN "user" ELSE "assistant"

\* Claude: the message selector is [data-testid="user-message"], so every
\* element it yields carries that attribute
claudeIsValidMessage(e) ==
  /\ box[e] # "zero"
  /\ Len(TrimmedText(e)) # 0

claudeGetMessageRole(e) == "user"

\* this.adapter.isValidMessage / this.adapter.getMessageRole
isValidMessage(e) ==
  IF platform = "claude" THEN claudeIsValidMessage(e) ELSE chatgptIsValidMessage(e)

getMessageRole(e) ==
  IF platform = "claude" THEN claudeGetMessageRole(e) ELSE chatgptGetMessageRole(e)

\* The call sites at which a call on an element can throw (a hostile or
\* half-built node of the host page): "valid" the validity predicate and
\* "create" the record creation of a discovery pass; "role" the role
\* detection, "generate" the identifier generation and "line" the line
\* creation of injectAnchorForMessage.
NoFault == "none"
FaultPoints == {"valid", "create", "role", "generate", "line"}

\* document.contains(element)
Attached(e) == e \in Range(dom)

(***************************************************************************)
(* The state the handlers read and write, as one record.                   *)
(***************************************************************************)
Pack ==
  [ messages |-> messages,
    isObserving |-> isObserving,
    observedRoot |-> observedRoot,
    injectedAnchors |-> injectedAnchors,
    anchorMap |-> anchorMap,
    idMap |-> idMap,
    contentCache |-> contentCache,
    cachedText |-> cachedText,
    sequenceCounter |-> sequenceCounter,
    messageLines |-> messageLines,
    messageElements |-> messageElements,
    messageTexts |-> messageTexts,
    onMessagesChanged |-> onMessagesChanged,
    thrown |-> FALSE,
    log |-> <<>>,
    idCalls |-> <<>> ]

Unpack(S) ==
  /\ messages' = S.messages
  /\ isObserving' = S.isObserving
  /\ observedRoot' = S.observedRoot
  /\ injectedAnchors' = S.injectedAnchors
  /\ anchorMap' = S.anchorMap
  /\ idMap' = S.idMap
  /\ contentCache' = S.contentCache
  /\ cachedText' = S.cachedText
  /\ sequenceCounter' = S.sequenceCounter
  /\ messageLines' = S.messageLines
  /\ messageElements' = S.messageElements
  /\ messageTexts' = S.messageTexts
  /\ onMessagesChanged' = S.onMessagesChanged
  /\ log' = S.log
  /\ idCalls' = S.idCalls

TrackedIn(msgs) == {msgs[i].element : i \in DOMAIN msgs}

\* One entry of the history of a handler run: a pass ("detect", "cleanup",
\* "update"), a change event ("added", "removed", "updated") or a step of
\* the coordinator.  before: the elements tracked when it began; elems: the
\* batch; ids: the anchor ids the batch elements had; nav: the navigation.
LogEntry(op, before, elems, ids, nav) ==
  [op |-> op, before |-> before, elems |-> elems, ids |-> ids, nav |-> nav]

Logged(S, op, elems) ==
  [S EXCEPT !.log = Append(@, LogEntry(op, TrackedIn(S.messages), elems,
                                       [i \in DOMAIN elems |-> S.injectedAnchors[elems[i]]], 0))]

Marked(S, op, nav) ==
  [S EXCEPT !.log = Append(@, LogEntry(op, TrackedIn(S.messages), <<>>, <<>>, nav))]

Ops(l) == {l[i].op : i \in DOMAIN l}

\* an exception leaves the function running at site
Throw(S, site) == [Marked(S, site, 0) EXCEPT !.thrown = TRUE]

\* a catch block swallows the exception
Caught(S) == Marked(S, "caught", 0)

\* sequential composition: the statement after a call runs only if the
\* call returned
Then(S, Op(_)) == IF S.thrown THEN S ELSE Op(S)

(***************************************************************************)
(* AnchorGenerator                                                         *)
(***************************************************************************)
\* index among the siblings; the message elements are the children counted
getElementPosition(e) == IF ~Attached(e) THEN 0 ELSE IndexOf(dom, e) - 1

hashContent(e) == simpleHash(Substring0(TrimmedText(e), HashPrefixLen))

\* a generator that puts the sibling position into every identifier
generateAnchorId_WithPosition(S, e) ==
  IF extId[e] # NoExt
    THEN [kind |-> "ext", ext |-> extId[e], pos |-> getElementPosition(e),
          hash |-> NoHash, seq |-> 0]
    ELSE [kind |-> "seq", ext |-> 0, pos |-> getElementPosition(e),
          hash |-> hashContent(e), seq |-> S.sequenceCounter]

\* the identifier generateAnchorId returns
generateAnchorId(S, e) ==
  IF extId[e] # NoExt
    THEN [kind |-> "ext", ext |-> extId[e], pos |-> 0, hash |-> NoHash, seq |-> 0]
    ELSE [kind |-> "seq", ext |-> 0, pos |-> getElementPosition(e),
          hash |-> hashContent(e), seq |-> S.sequenceCounter]

\* a generator that never advances the sequence counter
generateAnchorIdState_NoIncrement(S, e) == S

\* the generator after generateAnchorId (sequenceCounter++)
generateAnchorIdState(S, e) ==
  IF extId[e] # NoExt THEN S
  ELSE [S EXCEPT !.sequenceCounter = @ + 1]

\* a generator that keys the identifier on the content: it hands out a new
\* identifier once the text no longer matches the cached fingerprint
getOrCreateAnchorIdResult_Rehash(S, e) ==
  IF S.anchorMap[e] # NoId /\ S.contentCache[e] = hashContent(e)
    THEN S.anchorMap[e]
    ELSE generateAnchorId(S, e)

getOrCreateAnchorIdResult(S, e) ==
  IF S.anchorMap[e] # NoId THEN S.anchorMap[e] ELSE generateAnchorId(S, e)

getOrCreateAnchorId(S, e) ==
  LET id == getOrCreateAnchorIdResult(S, e)
      call == [element |-> e, id |-> id, prior |-> S.anchorMap[e],
               cached |-> S.contentCache[e], hash |-> hashContent(e),
               pos |-> getElementPosition(e)]
      S1 == [S EXCEPT !.idCalls = Append(@, call)]
  IN  IF S.anchorMap[e] # NoId THEN S1
      ELSE [generateAnchorIdState(S1, e) EXCEPT
              !.anchorMap[e] = id,
              !.idMap = MapSet(@, id, e),
              !.contentCache[e] = hashContent(e),
              !.cachedText[e] = text[e]]

hasContentChanged(S, e) ==
  IF S.contentCache[e] = NoHash THEN TRUE
  ELSE S.contentCache[e] # hashContent(e)

\* a cache refresh that also derives the identifier again from the new text
updateContentCache_Reassign(S, e) ==
  [S EXCEPT !.contentCache[e] = hashContent(e),
            !.cachedText[e] = text[e],
            !.anchorMap[e] = IF @ = NoId THEN @ ELSE generateAnchorId(S, e)]

updateContentCache(S, e) ==
  [S EXCEPT !.contentCache[e] = hashContent(e), !.cachedText[e] = text[e]]

removeAnchor(S, e) ==
  [S EXCEPT
     !.idMap = IF S.anchorMap[e] # NoId THEN MapDelete(@, S.anchorMap[e]) ELSE @,
     !.anchorMap[e] = NoId,
     !.contentCache[e] = NoHash,
     !.cachedText[e] = 0]

\* handleRegeneration: the identifier of oldElement, if it has one, is
\* moved to newElement; otherwise newElement gets its own
handleRegeneration(S, oldElement, newElement) ==
  LET anchorId == S.anchorMap[oldElement] IN
  IF anchorId # NoId
    THEN LET S1 == [S EXCEPT !.anchorMap[oldElement] = NoId,
                             !.contentCache[oldElement] = NoHash,
                             !.cachedText[oldElement] = 0]
             S2 == [S1 EXCEPT !.anchorMap[newElement] = anchorId,
                              !.idMap = MapSet(@, anchorId, newElement)]
         IN  updateContentCache(S2, newElement)
    ELSE getOrCreateAnchorId(S, newElement)

getElementByAnchorIdIn(map, id) == IF id \in DOMAIN map THEN map[id] ELSE NoElem

getElementByAnchorId(id) == getElementByAnchorIdIn(idMap, id)

clear(S) ==
  [S EXCEPT
     !.anchorMap = [e \in Elems |-> NoId],
     !.idMap = EmptyMap,
     !.contentCache = [e \in Elems |-> NoHash],
     !.cachedText = [e \in Elems |-> 0],
     !.sequenceCounter = 0]

(***************************************************************************)
(* AnchorUI                                                                *)
(***************************************************************************)
PreviewLen == 100

Ellipsis == <<46, 46, 46>>

EmptyMessage == <<0>>

\* text.replace(/\s+/g, ' ')
\* every maximal run of whitespace becomes one space: a character is copied
\* when it is not whitespace, and replaced by a space when it starts a run
CollapseStep(out, s, i) ==
  IF s[i] \notin Whitespace THEN Append(out, s[i])
  ELSE IF i = 1 \/ s[i - 1] \notin Whitespace THEN Append(out, 32)
  ELSE out

RECURSIVE CollapseRun(_, _, _, _)
CollapseRun(out, s, i, j) ==
  IF i > j THEN out ELSE CollapseRun(CollapseStep(out, s, i), s, i + 1, j)

\* the replacement from character i on, in runs of 16 characters
RECURSIVE CollapseFrom(_, _, _)
CollapseFrom(out, s, i) ==
  IF i > Len(s) THEN out
  ELSE LET j == IF i + 15 < Len(s) THEN i + 15 ELSE Len(s)
           run == CollapseRun(out, s, i, j)
       IN  IF Len(run) >= 0 THEN CollapseFrom(run, s, j + 1) ELSE out

CollapseWhitespace(s) == CollapseFrom(<<>>, s, 1)

extractMessageText(e) ==
  LET t == TrimmedText(e)
      cut == IF Len(t) > PreviewLen THEN SubSeq(t, 1, PreviewLen) \o Ellipsis ELSE t
      out == CollapseWhitespace(cut)
  IN  IF out = <<>> THEN EmptyMessage ELSE out

\* an AnchorUI that puts a new line at the top of the strip
addMessageLine_Prepend(S, id, e) ==
  IF id \in Range(S.messageLines) THEN S
  ELSE [S EXCEPT
          !.messageLines = <<id>> \o @,
          !.messageElements = MapSet(@, id, e),
          !.messageTexts = MapSet(@, id, extractMessageText(e))]

addMessageLine(S, id, e) ==
  IF id \in Range(S.messageLines) THEN S
  ELSE [S EXCEPT
          !.messageLines = Append(@, id),
          !.messageElements = MapSet(@, id, e),
          !.messageTexts = MapSet(@, id, extractMessageText(e))]

\* the text showTooltip puts into the tooltip of line id: the stored preview
showTooltip(id) ==
  IF id \in DOMAIN messageTexts THEN messageTexts[id] ELSE <<>>

removeMessageLine(S, id) ==
  [S EXCEPT
     !.messageLines = Without(@, id),
     !.messageElements = MapDelete(@, id),
     !.messageTexts = MapDelete(@, id)]

(***************************************************************************)
(* AnchorInjector                                                          *)
(***************************************************************************)
\* an injector without the try/catch: the exception leaves it
injectAnchorForMessage_NoCatch(S, m) ==
  LET e == m.element IN
  IF S.injectedAnchors[e] # NoId THEN S
  ELSE IF fault[e] = "role" THEN Throw(S, "throwInject")
  ELSE IF getMessageRole(e) # "user" THEN S
  ELSE IF fault[e] = "generate" /\ S.anchorMap[e] = NoId THEN Throw(S, "throwInject")
  ELSE LET S1 == getOrCreateAnchorId(S, e)
           id == S1.anchorMap[e]
           S2 == addMessageLine(S1, id, e)
       IN  IF fault[e] = "line" /\ id \notin Range(S1.messageLines)
             THEN Throw(S1, "throwInject")
             ELSE [S2 EXCEPT !.injectedAnchors[e] = id]

\* the try block holds the role detection, the identifier and the line;
\* addMessageLine extracts the preview text before it stores anything
injectAnchorForMessage(S, m) ==
  LET e == m.element IN
  IF S.injectedAnchors[e] # NoId THEN S
  ELSE IF fault[e] = "role" THEN Caught(S)
  ELSE IF getMessageRole(e) # "user" THEN S
  ELSE IF fault[e] = "generate" /\ S.anchorMap[e] = NoId THEN Caught(S)
  ELSE LET S1 == getOrCreateAnchorId(S, e)
           id == S1.anchorMap[e]
           S2 == addMessageLine(S1, id, e)
       IN  IF fault[e] = "line" /\ id \notin Range(S1.messageLines)
             THEN Caught(S1)
             ELSE [S2 EXCEPT !.injectedAnchors[e] = id]

\* messages.forEach: an exception out of the callback ends the loop
RECURSIVE injectAnchorsForMessages(_, _)
injectAnchorsForMessages(S, batch) ==
  IF batch = <<>> \/ S.thrown THEN S
  ELSE injectAnchorsForMessages(injectAnchorForMessage(S, Head(batch)), Tail(batch))

removeAnchorForMessage(S, m) ==
  LET e == m.element
      id == S.injectedAnchors[e]
  IN  IF id = NoId THEN S
      ELSE [removeAnchor(removeMessageLine(S, id), e) EXCEPT !.injectedAnchors[e] = NoId]

RECURSIVE removeAnchorsForMessages(_, _)
removeAnchorsForMessages(S, batch) ==
  IF batch = <<>> THEN S
  ELSE removeAnchorsForMessages(removeAnchorForMessage(S, Head(batch)), Tail(batch))

RECURSIVE handleStreamingUpdates(_, _)
handleStreamingUpdates(S, batch) ==
  IF batch = <<>> THEN S
  ELSE LET e == Head(batch).element
           S1 == IF hasContentChanged(S, e) THEN updateContentCache(S, e) ELSE S
       IN  handleStreamingUpdates(S1, Tail(batch))

ElementsOf(batch) == [i \in DOMAIN batch |-> batch[i].element]

\* a listener that injects anchors for updated messages too
handleMessagesChanged_InjectUpdated(S, type, batch) ==
  LET S1 == Logged(S, type, ElementsOf(batch)) IN
  IF type = "added" THEN injectAnchorsForMessages(S1, batch)
  ELSE IF type = "removed" THEN removeAnchorsForMessages(S1, batch)
  ELSE IF type = "updated"
    THEN injectAnchorsForMessages(handleStreamingUpdates(S1, batch), batch)
  ELSE S1

handleMessagesChanged(S, type, batch) ==
  LET S1 == Logged(S, type, ElementsOf(batch)) IN
  IF type = "added" THEN injectAnchorsForMessages(S1, batch)
  ELSE IF type = "removed" THEN removeAnchorsForMessages(S1, batch)
  ELSE IF type = "updated" THEN handleStreamingUpdates(S1, batch)
  ELSE S1

(***************************************************************************)
(* MessageDetector                                                         *)
(***************************************************************************)
StreamingThreshold == 10

Abs(n) == IF n < 0 THEN -n ELSE n

\* a record that starts with no recorded text
createMessageData_NoContent(e) ==
  [element |-> e, role |-> getMessageRole(e), lastContent |-> <<>>]

createMessageData(e) ==
  [element |-> e, role |-> getMessageRole(e), lastContent |-> TrimmedText(e)]

\* a discovery that forgets the messages.has(element) test
NewCandidates_Rescan(S) == SelectSeq(dom, LAMBDA e : isValidMessage(e))

\* the forEach callback of detectExistingMessages throws for e
ThrowsInDiscovery(S, e) ==
  \/ fault[e] = "valid"
  \/ fault[e] = "create" /\ isValidMessage(e) /\ e \notin TrackedIn(S.messages)

DiscoveryThrows(S) == \E k \in DOMAIN dom : ThrowsInDiscovery(S, dom[k])

\* the elements the forEach gets through: all of them, or those before the
\* first one it throws for
Scanned(S) ==
  IF ~DiscoveryThrows(S) THEN dom
  ELSE LET k == CHOOSE i \in DOMAIN dom :
                  /\ ThrowsInDiscovery(S, dom[i])
                  /\ \A j \in 1 .. i - 1 : ~ThrowsInDiscovery(S, dom[j])
       IN  SubSeq(dom, 1, k - 1)

\* the elements of querySelectorAll(selector) that pass the test of the forEach
NewCandidates(S) ==
  SelectSeq(Scanned(S), LAMBDA e : isValidMessage(e) /\ e \notin TrackedIn(S.messages))

detectExistingMessages(S) ==
  LET cands == NewCandidates(S)
      newMessages == [i \in DOMAIN cands |-> createMessageData(cands[i])]
      S1 == [Logged(S, "detect", cands) EXCEPT !.messages = @ \o newMessages]
  IN  IF DiscoveryThrows(S) THEN Throw(S1, "throwDetect")
      ELSE IF newMessages # <<>> /\ S.onMessagesChanged
        THEN handleMessagesChanged(S1, "added", newMessages)
        ELSE S1

cleanupRemovedMessages(S) ==
  LET removedMessages == SelectSeq(S.messages, LAMBDA m : ~Attached(m.element))
      S1 == [Logged(S, "cleanup", ElementsOf(removedMessages)) EXCEPT
               !.messages = SelectSeq(@, LAMBDA m : Attached(m.element))]
  IN  IF removedMessages # <<>> /\ S.onMessagesChanged
        THEN handleMessagesChanged(S1, "removed", removedMessages)
        ELSE S1

\* a threshold test that also passes a difference of exactly 10
HasStreamed_AtLeast(m) ==
  Abs(Len(TrimmedText(m.element)) - Len(m.lastContent)) >= StreamingThreshold

HasStreamed(m) ==
  Abs(Len(TrimmedText(m.element)) - Len(m.lastContent)) > StreamingThreshold

\* an update scan that calls the listener whether or not anything streamed
updateStreamingMessages_NotifyEmpty(S) ==
  LET refreshed == [i \in DOMAIN S.messages |->
                      IF HasStreamed(S.messages[i])
                        THEN [S.messages[i] EXCEPT
                                !.lastContent = TrimmedText(S.messages[i].element)]
                        ELSE S.messages[i]]
      updatedMessages ==
        LET idx == SelectSeq([i \in DOMAIN S.messages |-> i],
                             LAMBDA i : HasStreamed(S.messages[i]))
        IN  [k \in DOMAIN idx |-> refreshed[idx[k]]]
      S1 == [Logged(S, "update", ElementsOf(updatedMessages)) EXCEPT
               !.messages = refreshed]
  IN  IF S.onMessagesChanged
        THEN handleMessagesChanged(S1, "updated", updatedMessages)
        ELSE S1

updateStreamingMessages(S) ==
  LET refreshed == [i \in DOMAIN S.messages |->
                      IF HasStreamed(S.messages[i])
                        THEN [S.messages[i] EXCEPT
                                !.lastContent = TrimmedText(S.messages[i].element)]
                        ELSE S.messages[i]]
      updatedMessages ==
        LET idx == SelectSeq([i \in DOMAIN S.messages |-> i],
                             LAMBDA i : HasStreamed(S.messages[i]))
        IN  [k \in DOMAIN idx |-> refreshed[idx[k]]]
      S1 == [Logged(S, "update", ElementsOf(updatedMessages)) EXCEPT
               !.messages = refreshed]
  IN  IF updatedMessages # <<>> /\ S.onMessagesChanged
        THEN handleMessagesChanged(S1, "updated", updatedMessages)
        ELSE S1

startObserving(S, root) ==
  IF ~observer \/ root = NoRoot THEN S
  ELSE [S EXCEPT !.isObserving = TRUE, !.observedRoot = root]

\* a setupObserver that throws when it finds no container
setupObserver_Throws(S) ==
  IF container = NoRoot THEN Throw(S, "throwSetup")
  ELSE [S EXCEPT !.isObserving = TRUE, !.observedRoot = container]

\* setupObserver: without a container it warns and returns; with one it
\* creates this.observer and starts observing the container
setupObserver(S) ==
  IF container = NoRoot THEN S
  ELSE [S EXCEPT !.isObserving = TRUE, !.observedRoot = container]

\* a stop that also forgets the tracked messages
stopObserving_Reset(S) ==
  IF observer THEN [S EXCEPT !.isObserving = FALSE, !.observedRoot = NoRoot,
                             !.messages = <<>>]
  ELSE S

stopObserving(S) ==
  IF observer THEN [S EXCEPT !.isObserving = FALSE, !.observedRoot = NoRoot]
  ELSE S

reconnectObserver(S) ==
  IF container # NoRoot /\ observer /\ ~S.isObserving
    THEN Then(detectExistingMessages(startObserving(S, container)),
              cleanupRemovedMessages)
    ELSE S

clearMessages(S) ==
  LET S1 == [Marked(S, "clearMessages", 0) EXCEPT !.messages = <<>>] IN
  IF observer THEN reconnectObserver(stopObserving(S1)) ELSE S1

DebounceTicks == DebounceMs \div TickMs

\* a debouncedDetect that leaves the earlier timeout running
armDebounce_NoClear(timers, t) == timers \cup {t + DebounceTicks}

\* this.debouncedDetect at time t: clearTimeout(debounceTimer), then
\* debounceTimer = setTimeout(..., 150)
armDebounce(timers, t) == {t + DebounceTicks}

\* MessageDetector.destroy, but for this.observer = null
destroy(S) ==
  [stopObserving(S) EXCEPT !.messages = <<>>, !.onMessagesChanged = FALSE]

\* a pass that looks for streamed text before it looks for removed elements
debouncedDetect_UpdateFirst(S) ==
  Then(Then(detectExistingMessages(S), updateStreamingMessages), cleanupRemovedMessages)

\* the body of the debounce timeout
debouncedDetect(S) ==
  Then(Then(detectExistingMessages(S), cleanupRemovedMessages), updateStreamingMessages)

(***************************************************************************)
(* AnchorInjector.clearAllAnchors                                          *)
(***************************************************************************)
RECURSIVE removeLines(_, _)
removeLines(S, ids) ==
  IF ids = {} THEN S
  ELSE LET id == CHOOSE x \in ids : TRUE
       IN  removeLines(removeMessageLine(S, id), ids \ {id})

clearAllAnchors(S) ==
  LET ids == {S.injectedAnchors[e] : e \in Elems} \ {NoId}
      S1 == [removeLines(Marked(S, "clearLines", 0), ids) EXCEPT
               !.injectedAnchors = [e \in Elems |-> NoId]]
  IN  Then(clearMessages(S1), clear)

\* AnchorInjector.reinjectAllAnchors: the messages tracked before the clear
\* are injected after it
reinjectAllAnchors(S) ==
  LET tracked == S.messages
      reinject(T) == injectAnchorsForMessages(T, tracked)
  IN  Then(clearAllAnchors(Marked(S, "reinject", 0)), reinject)

\* AnchorUI.clear
anchorUIClear(S) ==
  [S EXCEPT !.messageLines = <<>>,
            !.messageElements = EmptyMap,
            !.messageTexts = EmptyMap]

\* AnchorInjector.destroy
injectorDestroy(S) ==
  LET clearInjected(T) == [T EXCEPT !.injectedAnchors = [e \in Elems |-> NoId]]
  IN  Then(Then(Then(Then(clearAllAnchors(S), destroy), anchorUIClear), clear),
           clearInjected)

(***************************************************************************)
(* The page (environment).                                                 *)
(***************************************************************************)
Boxes == {"ok", "zero", "sys"}

\* a mutation under the observed root reaches the MutationObserver callback,
\* which (re)arms the debounce timeout
Observed == isObserving /\ observedRoot = container /\ container # NoRoot

\* the program holds a reference to the element
Referenced(e) ==
  \/ e \in TrackedIn(messages)
  \/ injectedAnchors[e] # NoId
  \/ anchorMap[e] # NoId
  \/ contentCache[e] # NoHash
  \/ e \in Range(idMap)
  \/ e \in Range(messageElements)

\* a node the page has not created yet
Fresh(e) == ~Attached(e) /\ ~Referenced(e)

\* the observer callback runs (cb) or not after a mutation of the page
ObserverCallback(cb) ==
  /\ debounceTimer' = IF cb THEN armDebounce(debounceTimer, now) ELSE debounceTimer
  /\ lastCallback' = IF cb THEN now ELSE lastCallback
  /\ firstCallback' = IF cb /\ debounceTimer = {} THEN now ELSE firstCallback

\* Nodes the page has not created yet are interchangeable: the next one
\* created is the lowest.  An element that fails the size or system-message
\* test is not looked at further, so its other attributes stay at the
\* defaults.
Attach(e, i, r, x, b, t) ==
  /\ domOps < MaxDomOps
  /\ Fresh(e) => \A f \in Elems : Fresh(f) => e <= f
  /\ b # "ok" => (r = "assistant" /\ x = NoExt /\ t = 1)
  /\ container # NoRoot
  /\ ~Attached(e)
  /\ i \in 1 .. Len(dom) + 1
  /\ dom' = InsertAt(dom, i, e)
  /\ dataTurn' = [dataTurn EXCEPT ![e] = r]
  /\ extId' = [extId EXCEPT ![e] = x]
  /\ box' = [box EXCEPT ![e] = b]
  /\ text' = [text EXCEPT ![e] = t]
  /\ domOps' = domOps + 1
  /\ ObserverCallback(Observed)
  /\ log' = <<>> /\ idCalls' = <<>>
  /\ oldElems' = IF Fresh(e) THEN oldElems \ {e} ELSE oldElems
  /\ UNCHANGED <<container, observedRoot, onMessagesChanged, messages, observer,
                 isObserving, injectedAnchors, genVars, uiVars, navVars,
                 startVars, envVars>>

\* a detached element's attributes are never read again; they are reset so
\* that a later Attach of the same node may carry any attributes
Detach(e) ==
  /\ domOps < MaxDomOps
  /\ Attached(e)
  /\ dom' = Without(dom, e)
  /\ dataTurn' = [dataTurn EXCEPT ![e] = "assistant"]
  /\ extId' = [extId EXCEPT ![e] = NoExt]
  /\ box' = [box EXCEPT ![e] = "ok"]
  /\ text' = [text EXCEPT ![e] = 1]
  /\ fault' = [fault EXCEPT ![e] = NoFault]
  /\ domOps' = domOps + 1
  /\ ObserverCallback(Observed)
  /\ log' = <<>> /\ idCalls' = <<>>
  /\ UNCHANGED oldElems
  /\ UNCHANGED <<container, observedRoot, onMessagesChanged, messages, observer,
                 isObserving, injectedAnchors, genVars, uiVars, navVars,
                 startVars, hidden, now>>

\* the page rewrites the text; seen: the rewrite replaced child nodes
\* (childList), not only character data, which the observer ignores
SetText(e, t, seen) ==
  /\ domOps < MaxDomOps
  /\ Attached(e)
  /\ t # text[e]
  /\ text' = [text EXCEPT ![e] = t]
  /\ domOps' = domOps + 1
  /\ ObserverCallback(seen /\ Observed)
  /\ log' = <<>> /\ idCalls' = <<>>
  /\ UNCHANGED oldElems
  /\ UNCHANGED <<dom, dataTurn, extId, box, container, observedRoot,
                 onMessagesChanged, messages, observer, isObserving,
                 injectedAnchors, genVars, uiVars, navVars, startVars, envVars>>

\* the page changes what the adapter takes the role from; seen: the change
\* added or removed child nodes (childList), not only the data-turn
\* attribute, which the attribute filter of the observer leaves out
SetRole(e, r, seen) ==
  /\ domOps < MaxDomOps
  /\ Attached(e)
  /\ box[e] = "ok"
  /\ r # dataTurn[e]
  /\ dataTurn' = [dataTurn EXCEPT ![e] = r]
  /\ domOps' = domOps + 1
  /\ ObserverCallback(seen /\ Observed)
  /\ log' = <<>> /\ idCalls' = <<>>
  /\ UNCHANGED oldElems
  /\ UNCHANGED <<dom, text, extId, box, container, observedRoot,
                 onMessagesChanged, messages, observer, isObserving,
                 injectedAnchors, genVars, uiVars, navVars, startVars, envVars>>

\* a call on the element starts to throw at call site p
Break(e, p) ==
  /\ Attached(e)
  /\ fault[e] = NoFault
  /\ fault' = [fault EXCEPT ![e] = p]
  /\ log' = <<>> /\ idCalls' = <<>>
  /\ UNCHANGED <<domVars, detVars, injectedAnchors, genVars, uiVars, navVars,
                 oldElems, startVars, hidden, now, clockVars>>

\* the page removes the conversation root and with it the messages under
\* it; observedRoot keeps the node the observer was attached to
RootRemoved ==
  /\ domOps < MaxDomOps
  /\ container # NoRoot
  /\ container' = NoRoot
  /\ dom' = <<>>
  /\ dataTurn' = [e \in Elems |-> "assistant"]
  /\ extId' = [e \in Elems |-> NoExt]
  /\ box' = [e \in Elems |-> "ok"]
  /\ text' = [e \in Elems |-> 1]
  /\ fault' = [e \in Elems |-> NoFault]
  /\ domOps' = domOps + 1
  /\ log' = <<>> /\ idCalls' = <<>>
  /\ UNCHANGED <<observedRoot, detVars, injectedAnchors, genVars, uiVars,
                 navVars, oldElems, startVars, hidden, now, clockVars>>

\* the page renders a conversation root: a new node, or the node it removed
RootAppears(r) ==
  /\ domOps < MaxDomOps
  /\ container = NoRoot
  /\ container' = r
  /\ domOps' = domOps + 1
  /\ log' = <<>> /\ idCalls' = <<>>
  /\ UNCHANGED <<dom, dataTurn, extId, box, text, observedRoot, detVars,
                 injectedAnchors, genVars, uiVars, navVars, oldElems,
                 startVars, envVars, clockVars>>

\* the page restyles its conversation root before anything observes it: no
\* element matches the container selector any more, the messages stay in
\* the document
RootUnmatched ==
  /\ domOps < MaxDomOps
  /\ ~isObserving
  /\ container # NoRoot
  /\ container' = NoRoot
  /\ domOps' = domOps + 1
  /\ log' = <<>> /\ idCalls' = <<>>
  /\ UNCHANGED <<dom, dataTurn, extId, box, text, observedRoot, detVars,
                 injectedAnchors, genVars, uiVars, navVars, oldElems,
                 startVars, envVars, clockVars>>

\* time passes
Tick ==
  /\ now < MaxTicks
  /\ now' = now + 1
  /\ log' = <<>> /\ idCalls' = <<>>
  /\ UNCHANGED <<domVars, detVars, injectedAnchors, genVars, uiVars, navVars,
                 oldElems, startVars, hidden, fault, clockVars>>

(***************************************************************************)
(* The extension's handlers.                                               *)
(***************************************************************************)
\* an initialize() that does not ask platformRouter.isSupported()
startPhase_NoCheck(p) == "waiting"

\* initialize() up to its first return or to the arming of its timers
startPhase(p) == IF p = NoPlatform THEN "unsupported" ELSE "waiting"

\* the poll is 500 ms apart and is cleared after 10 s
PollMs == 500
ContainerTimeoutMs == 10000
MaxPolls == ContainerTimeoutMs \div PollMs

\* a container poll that is never cleared
pollArmed_NoTimeout(count) == TRUE

\* the interval of the container poll still runs: its next run is due
\* before the timeout that clears it
pollArmed(count) == count < MaxPolls

\* content/main.js initialize(): an unsupported page returns at once; on a
\* supported one the 500 ms container poll and its 10 s timeout are armed
Start ==
  /\ phase = "loading"
  /\ phase' = startPhase(platform)
  /\ log' = <<LogEntry("start", {}, <<>>, <<>>, 0)>> /\ idCalls' = <<>>
  /\ UNCHANGED <<domVars, detVars, injectedAnchors, genVars, uiVars, navVars,
                 oldElems, platform, readyWait, scrollable, checkCount, pollCount, envVars, clockVars>>

\* the 10 s timeout of initialize(): clearInterval(waitForContainer)
StartTimeout ==
  /\ phase = "waiting"
  /\ phase' = "timedout"
  /\ log' = <<LogEntry("timeout", {}, <<>>, <<>>, 0)>> /\ idCalls' = <<>>
  /\ UNCHANGED <<domVars, detVars, injectedAnchors, genVars, uiVars, navVars,
                 oldElems, platform, readyWait, scrollable, checkCount, pollCount, envVars, clockVars>>

\* the container poll runs and document.querySelector finds no container
PollMiss ==
  /\ phase = "waiting"
  /\ pollArmed(pollCount)
  /\ container = NoRoot
  /\ pollCount' = pollCount + 1
  /\ log' = <<LogEntry("poll", {}, <<>>, <<>>, 0)>> /\ idCalls' = <<>>
  /\ UNCHANGED <<domVars, detVars, injectedAnchors, genVars, uiVars, navVars,
                 oldElems, platform, readyWait, scrollable, phase, checkCount, envVars, clockVars>>

\* document.querySelector(scrollableSelector) finds no element
NoScrollable == -1

\* values of scrollable: no element, or one with scrollHeight 0, 1 or 2
Scrollables == {NoScrollable, 0, 1, 2}

\* maxChecks of waitForClaudeReady
MaxReadyChecks == 20

\* the delay of each setTimeout(checkReady, ...) of waitForClaudeReady, in ms
ReadyDelayMs == 500

\* the locals of waitForClaudeReady when it is called
ReadyWaitInit == [checks |-> 0, last |-> 0, calls |-> 0]

\* a waitForClaudeReady without maxChecks
checkReadyCalls_NoLimit(count, height, last) ==
  height # NoScrollable /\ height > 0 /\ height = last

\* checkReady of waitForClaudeReady, with count the incremented checkCount:
\* it invokes the callback when the container is stable or the checks are
\* used up, and arms the next check otherwise
checkReadyCalls(count, height, last) ==
  IF height = NoScrollable
    THEN count >= MaxReadyChecks
    ELSE (height > 0 /\ height = last) \/ count >= MaxReadyChecks

\* the locals of waitForClaudeReady after a run of checkReady
checkReadyWait(w, height) ==
  [checks |-> w.checks + 1,
   last   |-> IF height = NoScrollable THEN w.last ELSE height,
   calls  |-> IF checkReadyCalls(w.checks + 1, height, w.last)
                THEN w.calls + 1 ELSE w.calls]

\* the time since waitForClaudeReady was called at which its checkReady
\* runs for the count-th time: each run is armed 500 ms ahead
readyElapsedMs(count) == count * ReadyDelayMs

\* Claude: a timeout of waitForClaudeReady fires and checkReady arms the
\* next one, the container being absent or not yet stable
ReadyCheck ==
  /\ phase = "deferred"
  /\ ~checkReadyCalls(readyWait.checks + 1, scrollable, readyWait.last)
  /\ readyWait' = checkReadyWait(readyWait, scrollable)
  /\ log' = <<LogEntry("readycheck", {}, <<>>, <<>>, 0)>> /\ idCalls' = <<>>
  /\ UNCHANGED <<domVars, detVars, injectedAnchors, genVars, uiVars, navVars,
                 oldElems, platform, phase, checkCount, pollCount, scrollable,
                 envVars, clockVars>>

\* Claude's page renders, resizes or removes its scrollable container
ScrollableSet(h) ==
  /\ platform = "claude"
  /\ h # scrollable
  /\ scrollable' = h
  /\ log' = <<>> /\ idCalls' = <<>>
  /\ UNCHANGED <<domVars, detVars, injectedAnchors, genVars, uiVars, navVars,
                 oldElems, platform, phase, checkCount, pollCount, readyWait,
                 envVars, clockVars>>

\* Claude: the container poll finds the container; initializeExtension
\* defers initializeComponents behind waitForClaudeReady
ContainerFound ==
  /\ phase = "waiting"
  /\ pollArmed(pollCount)
  /\ platform = "claude"
  /\ container # NoRoot
  /\ phase' = "deferred"
  /\ pollCount' = pollCount + 1
  /\ readyWait' = ReadyWaitInit
  /\ log' = <<LogEntry("poll", {}, <<>>, <<>>, 0)>> /\ idCalls' = <<>>
  /\ UNCHANGED <<domVars, detVars, injectedAnchors, genVars, uiVars, navVars,
                 oldElems, platform, scrollable, checkCount, envVars, clockVars>>

\* a handleUrlChange that does not compare the URL with lastUrl
urlChanged_Always(currentUrl, last) == TRUE

\* handleUrlChange: currentUrl !== lastUrl
urlChanged(currentUrl, last) == currentUrl # last

\* startPolling: a new interval unless urlCheckInterval holds one
startPolling(intervals) == IF intervals = 0 THEN 1 ELSE intervals

\* stopPolling: clearInterval of the one urlCheckInterval holds
stopPolling(intervals) == IF intervals = 0 THEN 0 ELSE intervals - 1

\* initializeComponents: AnchorInjector.initialize -> MessageDetector.initialize
\* (detectExistingMessages, setupObserver), then setupNavigationListener.
\* ChatGPT: called by the container poll when it finds the container;
\* Claude: called by the checkReady of waitForClaudeReady that finds the
\* container stable or has used up the checks.  An exception is caught by
\* initializeComponents, which then skips the rest.
Initialize ==
  /\ \/ /\ phase = "waiting" /\ platform = "chatgpt" /\ container # NoRoot
        /\ pollArmed(pollCount)
     \/ /\ phase = "deferred"
        /\ checkReadyCalls(readyWait.checks + 1, scrollable, readyWait.last)
  /\ pollCount' = IF phase = "waiting" THEN pollCount + 1 ELSE pollCount
  /\ readyWait' = IF phase = "deferred"
                    THEN checkReadyWait(readyWait, scrollable)
                    ELSE readyWait
  /\ LET S0 == [Pack EXCEPT !.onMessagesChanged = TRUE]
         S2 == Then(detectExistingMessages(S0), setupObserver)
     IN  /\ Unpack(Marked(S2, "initialize", 0))
         /\ observer' = (container # NoRoot /\ ~S2.thrown)
         /\ navListening' = ~S2.thrown
         /\ urlCheckInterval' = IF S2.thrown THEN urlCheckInterval
                                 ELSE startPolling(urlCheckInterval)
         /\ phase' = IF S2.thrown THEN "failed" ELSE "ready"
  /\ lastUrl' = href
  /\ UNCHANGED <<dom, dataTurn, extId, box, text, container, domOps,
                 debounceTimer, href, navCount, navPending, urlChanges, oldElems,
                 platform, scrollable, checkCount, envVars, clockVars>>

\* the debounce timeout armed for time d fires
DebouncedPassAt(d) ==
  /\ d \in debounceTimer
  /\ debounceTimer' = debounceTimer \ {d}
  /\ Unpack(Marked(debouncedDetect(Pack), "pass", 0))
  /\ UNCHANGED <<dom, dataTurn, extId, box, text, container, domOps,
                 observer, navVars, oldElems, startVars, envVars, clockVars>>

\* the debounce timeout fires, at some time after it was armed
DebouncedPass == \E d \in debounceTimer : DebouncedPassAt(d)

\* the debounce timeout fires, not before its time
TimedPass == \E d \in debounceTimer : d <= now /\ DebouncedPassAt(d)

MaxChecks == 10

\* a waitForClaudeChatReady that waits until a message is there
checkReadyDone_NoLimit(count, found) == found

\* checkReady of waitForClaudeChatReady calls back
checkReadyDone(count, found) == found \/ count >= MaxChecks

\* document.querySelectorAll('[data-testid="user-message"]').length > 0
ClaudeMessagesFound == dom # <<>>

\* handleUrlChange, run on the state S a handler has reached, with cur the
\* value of location.href: when cur differs from lastUrl it is recorded, the
\* anchors are cleared and the wait is started: ChatGPT arms the 800 ms
\* callback; Claude runs the first checkReady at once.  Otherwise nothing.
HandleUrlChange(S, cur) ==
  IF urlChanged(cur, lastUrl)
    THEN LET n == navCount + 1
             ready == platform = "claude" /\ checkReadyDone(1, ClaudeMessagesFound)
         IN  /\ lastUrl' = cur
             /\ navCount' = n
             /\ oldElems' = Range(dom) \cup {e \in Elems : Referenced(e)}
             /\ \E S1 \in {Marked(clearAllAnchors(S), "navigate", n)} :
                  IF S1.thrown
                    THEN /\ Unpack(S1)
                         /\ UNCHANGED <<navPending, checkCount>>
                  ELSE IF platform = "claude"
                    THEN /\ checkCount' = [checkCount EXCEPT ![n] = 1]
                         /\ navPending' = IF ready THEN navPending
                                          ELSE navPending \cup {n}
                         /\ Unpack(IF ready
                                     THEN Marked(detectExistingMessages(S1),
                                                 "navready", n)
                                     ELSE S1)
                  ELSE /\ navPending' = navPending \cup {n}
                       /\ Unpack(S1)
                       /\ UNCHANGED checkCount
    ELSE /\ Unpack(S)
         /\ UNCHANGED <<lastUrl, navCount, oldElems, navPending, checkCount>>

\* history.pushState / replaceState to another URL: the hook calls
\* handleUrlChange
Navigate(u) ==
  /\ navListening
  /\ urlChanges < MaxNav
  /\ u # href
  /\ href' = u
  /\ urlChanges' = urlChanges + 1
  /\ HandleUrlChange(Marked(Pack, "pushState", 0), u)
  /\ UNCHANGED <<dom, dataTurn, extId, box, text, container, domOps,
                 observer, debounceTimer, navListening, urlCheckInterval,
                 platform, readyWait, scrollable, phase, pollCount, envVars, clockVars>>

\* back / forward: the URL has changed when the popstate listener, which is
\* handleUrlChange, runs
PopState(u) ==
  /\ navListening
  /\ urlChanges < MaxNav
  /\ u # href
  /\ href' = u
  /\ urlChanges' = urlChanges + 1
  /\ HandleUrlChange(Marked(Pack, "popstate", 0), u)
  /\ UNCHANGED <<dom, dataTurn, extId, box, text, container, domOps,
                 observer, debounceTimer, navListening, urlCheckInterval,
                 platform, readyWait, scrollable, phase, pollCount, envVars, clockVars>>

\* the page changes location.href in a way no hook and no event reports
UrlChange(u) ==
  /\ navListening
  /\ urlChanges < MaxNav
  /\ u # href
  /\ href' = u
  /\ urlChanges' = urlChanges + 1
  /\ log' = <<>> /\ idCalls' = <<>>
  /\ UNCHANGED <<domVars, detVars, injectedAnchors, genVars, uiVars,
                 navListening, lastUrl, navCount, navPending, urlCheckInterval,
                 oldElems, startVars, envVars, clockVars>>

\* a URL polling interval fires: if (location.href !== lastUrl) handleUrlChange()
UrlPoll ==
  /\ urlCheckInterval > 0
  /\ IF href # lastUrl
       THEN HandleUrlChange(Marked(Pack, "urlpoll", 0), href)
       ELSE /\ Unpack(Marked(Pack, "urlpoll", 0))
            /\ UNCHANGED <<lastUrl, navCount, oldElems, navPending, checkCount>>
  /\ UNCHANGED <<dom, dataTurn, extId, box, text, container, domOps,
                 observer, debounceTimer, navListening, href, urlCheckInterval,
                 urlChanges, platform, readyWait, scrollable, phase, pollCount, envVars, clockVars>>

\* ChatGPT: the 800 ms callback of navigation n runs
NavReady(n) ==
  /\ n \in navPending
  /\ platform # "claude"
  /\ navPending' = navPending \ {n}
  /\ LET S1 == detectExistingMessages(Pack)
     IN  Unpack(Marked(S1, "navready", n))
  /\ UNCHANGED <<dom, dataTurn, extId, box, text, container, domOps,
                 observer, debounceTimer, navListening, href, lastUrl, navCount,
                 urlCheckInterval, urlChanges,
                 oldElems, startVars, envVars, clockVars>>

\* Claude: the 500 ms timeout of checkReady of navigation n runs
ClaudeCheck(n) ==
  /\ n \in navPending
  /\ platform = "claude"
  /\ checkCount[n] <= MaxChecks
  /\ checkCount' = [checkCount EXCEPT ![n] = @ + 1]
  /\ IF checkReadyDone(checkCount[n] + 1, ClaudeMessagesFound)
       THEN /\ navPending' = navPending \ {n}
            /\ Unpack(Marked(detectExistingMessages(Pack), "navready", n))
       ELSE /\ UNCHANGED navPending
            /\ Unpack(Marked(Pack, "check", n))
  /\ UNCHANGED <<dom, dataTurn, extId, box, text, container, domOps,
                 observer, debounceTimer, navListening, href, lastUrl, navCount,
                 urlCheckInterval, urlChanges,
                 oldElems, platform, readyWait, scrollable, phase, pollCount, envVars, clockVars>>

\* what the timeout of navigation n does to the wait when it fires: the
\* step of NavReady(n) or ClaudeCheck(n), seen on <<navPending, checkCount>>
waitVars == <<navPending, checkCount>>

TimerFires(n) ==
  /\ n \in navPending
  /\ IF platform = "claude"
       THEN /\ checkCount[n] <= MaxChecks
            /\ checkCount' = [checkCount EXCEPT ![n] = @ + 1]
            /\ navPending' = IF checkReadyDone(checkCount[n] + 1, ClaudeMessagesFound)
                               THEN navPending \ {n}
                               ELSE navPending
       ELSE /\ navPending' = navPending \ {n}
            /\ UNCHANGED checkCount

\* visibilitychange, document.hidden: MessageDetector's listener pauses the
\* observer; then the listener of setupNavigationListener, if that has run,
\* stops the URL polling
Hide ==
  /\ ~hidden
  /\ hidden' = TRUE
  /\ Unpack(Marked(stopObserving(Pack), "hide", 0))
  /\ urlCheckInterval' = IF navListening THEN stopPolling(urlCheckInterval)
                          ELSE urlCheckInterval
  /\ UNCHANGED <<dom, dataTurn, extId, box, text, container, domOps,
                 observer, debounceTimer, navListening, href, lastUrl, navCount,
                 navPending, urlChanges, oldElems, startVars,
                 fault, now, clockVars>>

\* visibilitychange, document visible: MessageDetector's listener
\* reconnects; then the listener of setupNavigationListener, if that has
\* run, handles a URL that differs from lastUrl and starts the URL polling
Show ==
  /\ hidden
  /\ hidden' = FALSE
  /\ \E S1 \in {Marked(reconnectObserver(Pack), "show", 0)} :
       IF navListening /\ href # lastUrl
         THEN HandleUrlChange(S1, href)
         ELSE /\ Unpack(S1)
              /\ UNCHANGED <<lastUrl, navCount, oldElems, navPending, checkCount>>
  /\ urlCheckInterval' = IF navListening THEN startPolling(urlCheckInterval)
                          ELSE urlCheckInterval
  /\ UNCHANGED <<dom, dataTurn, extId, box, text, container, domOps,
                 observer, debounceTimer, navListening, href, urlChanges,
                 platform, readyWait, scrollable, phase, pollCount, fault, now, clockVars>>

\* AnchorInjector.destroy(), which ends with MessageDetector.destroy()
Destroy ==
  /\ phase = "ready"
  /\ phase' = "destroyed"
  /\ LET S1 == injectorDestroy(Pack)
     IN  /\ Unpack(Marked(S1, "destroy", 0))
         /\ observer' = (observer /\ S1.thrown)
  /\ UNCHANGED <<dom, dataTurn, extId, box, text, container, domOps,
                 debounceTimer, navVars, oldElems, platform, readyWait, scrollable, checkCount,
                 pollCount,
                 envVars, clockVars>>

\* window.__scrollback.injector.reinjectAllAnchors(), called while every
\* tracked message is in the document
Reinject ==
  /\ phase = "ready"
  /\ TrackedIn(messages) \subseteq Range(dom)
  /\ Unpack(reinjectAllAnchors(Pack))
  /\ UNCHANGED <<dom, dataTurn, extId, box, text, container, domOps,
                 observer, debounceTimer, navVars, oldElems, startVars,
                 envVars, clockVars>>

\* window.__scrollback.generator.getOrCreateAnchorId(e)
GenGetOrCreate(e) ==
  /\ phase = "ready"
  /\ Attached(e)
  /\ sequenceCounter < MaxDomOps
  /\ Unpack(getOrCreateAnchorId(Marked(Pack, "getOrCreate", 0), e))
  /\ UNCHANGED <<dom, dataTurn, extId, box, text, container, domOps,
                 observer, debounceTimer, navVars, oldElems, startVars,
                 envVars, clockVars>>

\* window.__scrollback.generator.handleRegeneration(old, new)
GenRegenerate(old, new) ==
  /\ phase = "ready"
  /\ Attached(new)
  /\ sequenceCounter < MaxDomOps
  /\ Unpack(handleRegeneration(Marked(Pack, "regenerate", 0), old, new))
  /\ UNCHANGED <<dom, dataTurn, extId, box, text, container, domOps,
                 observer, debounceTimer, navVars, oldElems, startVars,
                 envVars, clockVars>>

\* window.__scrollback.generator.removeAnchor(e)
GenRemove(e) ==
  /\ phase = "ready"
  /\ Unpack(removeAnchor(Marked(Pack, "removeAnchor", 0), e))
  /\ UNCHANGED <<dom, dataTurn, extId, box, text, container, domOps,
                 observer, debounceTimer, navVars, oldElems, startVars,
                 envVars, clockVars>>

\* window.__scrollback.generator.clear()
GenClear ==
  /\ phase = "ready"
  /\ Unpack(clear(Marked(Pack, "clear", 0)))
  /\ UNCHANGED <<dom, dataTurn, extId, box, text, container, domOps,
                 observer, debounceTimer, navVars, oldElems, startVars,
                 envVars, clockVars>>

\* a page without messages, with or without a conversation root
EmptyPage ==
  /\ dom = <<>>
  /\ dataTurn = [e \in Elems |-> "assistant"]
  /\ extId = [e \in Elems |-> NoExt]
  /\ box = [e \in Elems |-> "ok"]
  /\ text = [e \in Elems |-> 1]
  /\ container \in {NoRoot, 1}

\* a page that shows a conversation of two user messages "hi"
LoadedPage ==
  /\ dom = <<1, 2>>
  /\ dataTurn = [e \in Elems |-> IF e \in {1, 2} THEN "user" ELSE "assistant"]
  /\ extId = [e \in Elems |-> NoExt]
  /\ box = [e \in Elems |-> "ok"]
  /\ text = [e \in Elems |-> 1]
  /\ container = 1

\* the extension's components when the content script is loaded
InitProgram ==
  /\ observedRoot = NoRoot
  /\ domOps = 0
  /\ onMessagesChanged = FALSE
  /\ messages = <<>>
  /\ observer = FALSE
  /\ isObserving = FALSE
  /\ debounceTimer = {}
  /\ injectedAnchors = [e \in Elems |-> NoId]
  /\ anchorMap = [e \in Elems |-> NoId]
  /\ idMap = EmptyMap
  /\ contentCache = [e \in Elems |-> NoHash]
  /\ cachedText = [e \in Elems |-> 0]
  /\ sequenceCounter = 0
  /\ messageLines = <<>>
  /\ messageElements = EmptyMap
  /\ messageTexts = EmptyMap
  /\ navListening = FALSE
  /\ href = 1
  /\ lastUrl = 1
  /\ navCount = 0
  /\ navPending = {}
  /\ urlCheckInterval = 0
  /\ urlChanges = 0
  /\ checkCount = [n \in 1 .. MaxNav |-> 0]
  /\ pollCount = 0
  /\ readyWait = ReadyWaitInit
  /\ scrollable = 1
  /\ hidden = FALSE
  /\ fault = [e \in Elems |-> NoFault]
  /\ now = 0
  /\ log = <<>>
  /\ idCalls = <<>>
  /\ oldElems = {}
  /\ firstCallback = 0
  /\ lastCallback = 0

\* the content script has been loaded into a page of any host
StartInit ==
  /\ EmptyPage
  /\ InitProgram
  /\ \E h \in Hostnames : platform = detectPlatform(h)
  /\ phase = "loading"

\* a ChatGPT page on which initialize() has armed the container poll
Init ==
  /\ EmptyPage
  /\ InitProgram
  /\ platform = "chatgpt"
  /\ phase = "waiting"

\* a ChatGPT page that shows a conversation when the container poll is armed
LoadedInit ==
  /\ LoadedPage
  /\ InitProgram
  /\ platform = "chatgpt"
  /\ phase = "waiting"

\* a ChatGPT or Claude page on which initialize() has armed the container poll
LiveInit ==
  /\ EmptyPage
  /\ InitProgram
  /\ platform \in Platforms
  /\ phase = "waiting"

\* texts the page writes into messages: "hi", "hello world!!" and " "
PageTexts == {1, 3, 4}

(***************************************************************************)
(* Spec: a conversation page that is not navigated away from.              *)
(***************************************************************************)
Next ==
  \/ \E e \in Elems, i \in 1 .. NumElems, r \in Roles, x \in ExtIds,
        b \in Boxes, t \in PageTexts : Attach(e, i, r, x, b, t)
  \/ \E e \in Elems : Detach(e)
  \/ \E e \in Elems, t \in PageTexts, seen \in BOOLEAN : SetText(e, t, seen)
  \/ Initialize
  \/ DebouncedPass

Spec == Init /\ [][Next]_vars

(***************************************************************************)
(* NavSpec: chat switching.  The page holds visible messages only.         *)
(***************************************************************************)
NavTexts == {1, 3}

NavNext ==
  \/ \E e \in Elems, i \in 1 .. NumElems, r \in Roles, x \in ExtIds,
        t \in NavTexts : Attach(e, i, r, x, "ok", t)
  \/ \E e \in Elems : Detach(e)
  \/ \E e \in Elems, t \in NavTexts, seen \in BOOLEAN : SetText(e, t, seen)
  \/ Initialize
  \/ DebouncedPass
  \/ \E u \in Urls : Navigate(u)
  \/ \E n \in 1 .. MaxNav : NavReady(n)

NavSpec == Init /\ [][NavNext]_vars

(***************************************************************************)
(* PassSpec: a page that already shows a conversation when the extension   *)
(* starts, and is not navigated away from.                                 *)
(***************************************************************************)
PassSpec == LoadedInit /\ [][Next]_vars

(***************************************************************************)
(* DebounceSpec: the page mutates while time passes; the debounce timeout  *)
(* fires at its time or later.  The messages are user messages.            *)
(***************************************************************************)
DebounceNext ==
  \/ \E e \in Elems, i \in 1 .. NumElems : Attach(e, i, "user", NoExt, "ok", 1)
  \/ \E e \in Elems : Detach(e)
  \/ \E e \in Elems, t \in NavTexts, seen \in BOOLEAN : SetText(e, t, seen)
  \/ Initialize
  \/ TimedPass
  \/ Tick

DebounceSpec == Init /\ [][DebounceNext]_vars

(***************************************************************************)
(* FaultSpec: calls on some elements of the page throw.                    *)
(***************************************************************************)
FaultNext ==
  \/ \E e \in Elems, i \in 1 .. NumElems, r \in Roles :
        Attach(e, i, r, NoExt, "ok", 1)
  \/ \E e \in Elems : Detach(e)
  \/ \E e \in Elems, p \in FaultPoints : Break(e, p)
  \/ Initialize
  \/ DebouncedPass

FaultSpec == Init /\ [][FaultNext]_vars

(***************************************************************************)
(* LiveSpec: chat switching on ChatGPT and on Claude.  A timeout that has  *)
(* been armed fires: the 800 ms callback and the 500 ms readiness checks   *)
(* are weakly fair.  The page owes nothing.                                *)
(***************************************************************************)
LiveNext ==
  \/ \E e \in Elems, i \in 1 .. NumElems : Attach(e, i, "user", NoExt, "ok", 1)
  \/ \E e \in Elems : Detach(e)
  \/ ContainerFound
  \/ ReadyCheck
  \/ Initialize
  \/ DebouncedPass
  \/ \E u \in Urls : Navigate(u)
  \/ \E n \in 1 .. MaxNav : NavReady(n)
  \/ \E n \in 1 .. MaxNav : ClaudeCheck(n)

LiveSpec ==
  /\ LiveInit
  /\ [][LiveNext]_vars
  /\ \A n \in 1 .. MaxNav : WF_waitVars(TimerFires(n))

(***************************************************************************)
(* RootSpec: chat switching on a page that removes and renders its         *)
(* conversation root.                                                      *)
(***************************************************************************)
RootNext ==
  \/ \E e \in Elems, i \in 1 .. NumElems : Attach(e, i, "user", NoExt, "ok", 1)
  \/ \E e \in Elems : Detach(e)
  \/ RootRemoved
  \/ \E r \in RootIds : RootAppears(r)
  \/ Initialize
  \/ DebouncedPass
  \/ \E u \in Urls : Navigate(u)
  \/ \E n \in 1 .. MaxNav : NavReady(n)

RootSpec == Init /\ [][RootNext]_vars

(***************************************************************************)
(* LifeSpec: the tab is hidden and shown, the chat is switched and the     *)
(* extension is torn down, on a page of user messages.                     *)
(***************************************************************************)
LifeNext ==
  \/ \E e \in Elems, i \in 1 .. NumElems : Attach(e, i, "user", NoExt, "ok", 1)
  \/ \E e \in Elems : Detach(e)
  \/ Initialize
  \/ DebouncedPass
  \/ Hide
  \/ Show
  \/ Destroy
  \/ \E u \in Urls : Navigate(u)
  \/ \E n \in 1 .. MaxNav : NavReady(n)

LifeSpec == Init /\ [][LifeNext]_vars

(***************************************************************************)
(* StartSpec: the content script is loaded into a page of any host; the    *)
(* page renders and removes its conversation root and its messages, and    *)
(* the tab is hidden and shown.                                            *)
(***************************************************************************)
StartNext ==
  \/ Start
  \/ StartTimeout
  \/ PollMiss
  \/ ContainerFound
  \/ ReadyCheck
  \/ Initialize
  \/ \E e \in Elems, i \in 1 .. NumElems : Attach(e, i, "user", NoExt, "ok", 1)
  \/ \E e \in Elems : Detach(e)
  \/ RootRemoved
  \/ \E r \in RootIds : RootAppears(r)
  \/ DebouncedPass
  \/ Hide
  \/ Show

StartSpec == StartInit /\ [][StartNext]_vars

(***************************************************************************)
(* NoRootSpec: a ChatGPT or Claude page whose conversation root stops      *)
(* matching the container selector, which on Claude can happen between the *)
(* poll that found it and the end of the readiness wait.                   *)
(***************************************************************************)
NoRootNext ==
  \/ \E e \in Elems, i \in 1 .. NumElems, r \in Roles :
        Attach(e, i, r, NoExt, "ok", 1)
  \/ \E e \in Elems : Detach(e)
  \/ RootUnmatched
  \/ \E r \in RootIds : RootAppears(r)
  \/ PollMiss
  \/ ContainerFound
  \/ ReadyCheck
  \/ Initialize
  \/ DebouncedPass

NoRootSpec == LiveInit /\ [][NoRootNext]_vars

(***************************************************************************)
(* DriftSpec: the page rewrites the text of user messages: a trailing      *)
(* space, a short text replaced by a longer one, and a long text that      *)
(* grows at its end, as a streamed one does.                               *)
(***************************************************************************)
DriftTexts == {1, 2, 3, 5, 6}

DriftNext ==
  \/ \E e \in Elems, i \in 1 .. NumElems, t \in DriftTexts :
        Attach(e, i, "user", NoExt, "ok", t)
  \/ \E e \in Elems : Detach(e)
  \/ \E e \in Elems, t \in DriftTexts, seen \in BOOLEAN : SetText(e, t, seen)
  \/ Initialize
  \/ DebouncedPass

DriftSpec == Init /\ [][DriftNext]_vars

(***************************************************************************)
(* StreamSpec: a message grows from "hi" to "hello world!" to              *)
(* "hello world!!" (2, 12 and 13 characters) between reconciliation passes.*)
(***************************************************************************)
StreamTexts == {1, 3, 7}

StreamNext ==
  \/ \E e \in Elems, i \in 1 .. NumElems, t \in StreamTexts :
        Attach(e, i, "user", NoExt, "ok", t)
  \/ \E e \in Elems : Detach(e)
  \/ \E e \in Elems, t \in StreamTexts, seen \in BOOLEAN : SetText(e, t, seen)
  \/ Initialize
  \/ DebouncedPass

StreamSpec == Init /\ [][StreamNext]_vars

(***************************************************************************)
(* ReinjectSpec: a ChatGPT or Claude page whose messages carry an id or    *)
(* not, whose root can stop matching the container selector before the     *)
(* observer is set up, and on which reinjectAllAnchors is called.          *)
(***************************************************************************)
ReinjectNext ==
  \/ \E e \in Elems, i \in 1 .. NumElems, r \in Roles, x \in ExtIds :
        Attach(e, i, r, x, "ok", 1)
  \/ \E e \in Elems : Detach(e)
  \/ RootUnmatched
  \/ ContainerFound
  \/ ReadyCheck
  \/ Initialize
  \/ DebouncedPass
  \/ Reinject

ReinjectSpec == LiveInit /\ [][ReinjectNext]_vars

(***************************************************************************)
(* UrlSpec: a ChatGPT conversation whose URL changes through pushState,    *)
(* through back and forward, and in ways nothing reports, while the URL    *)
(* poll runs and the tab is hidden and shown.                              *)
(***************************************************************************)
UrlNext ==
  \/ \E e \in Elems : Detach(e)
  \/ Initialize
  \/ \E u \in Urls : Navigate(u)
  \/ \E u \in Urls : PopState(u)
  \/ \E u \in Urls : UrlChange(u)
  \/ UrlPoll
  \/ \E n \in 1 .. MaxNav : NavReady(n)
  \/ Hide
  \/ Show

UrlSpec == LoadedInit /\ [][UrlNext]_vars

(***************************************************************************)
(* ReadySpec: a Claude page whose scrollable container appears, changes    *)
(* height and disappears at any time while waitForClaudeReady waits.  A    *)
(* timeout that has been armed fires: the 500 ms checks are weakly fair.   *)
(***************************************************************************)
\* a Claude page on which initialize() has armed the container poll
ReadyInit ==
  /\ EmptyPage
  /\ InitProgram
  /\ platform = "claude"
  /\ phase = "waiting"

\* what a timeout of waitForClaudeReady does to its locals when it fires:
\* the step of ReadyCheck or of Initialize, seen on readyWait
ReadyFires ==
  /\ phase = "deferred"
  /\ readyWait.calls = 0
  /\ readyWait' = checkReadyWait(readyWait, scrollable)

ReadyNext ==
  \/ \E e \in Elems, i \in 1 .. NumElems : Attach(e, i, "user", NoExt, "ok", 1)
  \/ \E h \in Scrollables : ScrollableSet(h)
  \/ PollMiss
  \/ ContainerFound
  \/ ReadyCheck
  \/ Initialize

ReadySpec ==
  /\ ReadyInit
  /\ [][ReadyNext]_vars
  /\ WF_readyWait(ReadyFires)

(***************************************************************************)
(* RoleSpec: a ChatGPT page that changes the role and the text of messages *)
(* it shows, and switches chats.                                           *)
(***************************************************************************)
RoleNext ==
  \/ \E e \in Elems, i \in 1 .. NumElems, r \in Roles :
        Attach(e, i, r, NoExt, "ok", 1)
  \/ \E e \in Elems : Detach(e)
  \/ \E e \in Elems, r \in Roles, seen \in BOOLEAN : SetRole(e, r, seen)
  \/ \E e \in Elems : SetText(e, 3, TRUE)
  \/ Initialize
  \/ DebouncedPass
  \/ \E u \in Urls : Navigate(u)
  \/ \E n \in 1 .. MaxNav : NavReady(n)

RoleSpec == Init /\ [][RoleNext]_vars

(***************************************************************************)
(* GenSpec: a ChatGPT page of user messages without identifiers of their   *)
(* own, on which the generator is also called directly, in any order.      *)
(***************************************************************************)
GenNext ==
  \/ \E e \in Elems, i \in 1 .. NumElems : Attach(e, i, "user", NoExt, "ok", 1)
  \/ \E e \in Elems : Detach(e)
  \/ Initialize
  \/ DebouncedPass
  \/ \E e \in Elems : GenGetOrCreate(e)
  \/ \E old, new \in Elems : GenRegenerate(old, new)
  \/ \E e \in Elems : GenRemove(e)
  \/ GenClear

GenSpec == Init /\ [][GenNext]_vars


(***************************************************************************)
Injected == {e \in Elems : injectedAnchors[e] # NoId}

LineIds == Range(messageLines)

\* the last step ran handler op
Ran(op) == op \in Ops(log)

\* C1 (Congruence): after every event the anchor lines of the UI are exactly
\* the identifiers held for the tracked user messages in injectedAnchors,
\* one line per such message, none orphaned and none missing.
C1_Congruence ==
  /\ LineIds = {injectedAnchors[e] : e \in Injected}
  /\ Len(messageLines) = Cardinality(Injected)

\* C3 (Leak-free removal): once a cleanup pass has run, no map of the
\* detector, injector, generator or UI refers to a detached element or to
\* its identifier.
C3_LeakFree ==
  Ran("cleanup") => \A e \in Elems : ~Attached(e) => ~Referenced(e)

\* C4 (Identifier uniqueness): no identifier is registered for two different
\* elements at once, neither in the generator nor as an anchor line.
C4_Unique ==
  \A e, f \in Elems :
    e # f =>
      /\ anchorMap[e] # NoId => anchorMap[e] # anchorMap[f]
      /\ injectedAnchors[e] # NoId => injectedAnchors[e] # injectedAnchors[f]

Entries(op) == SelectSeq(log, LAMBDA en : en.op = op)

PositionOf(op) == CHOOSE i \in DOMAIN log : log[i].op = op

ValidAttached == {e \in Range(dom) : isValidMessage(e)}

\* C2 (Reset clears fully): when the post-navigation discovery of the latest
\* navigation has run on a conversation made of new elements only, nothing
\* of the conversation navigated away from is left: no record, no anchor, no
\* line and no identifier refers to one of its elements.
C2_ResetClears ==
  (\E i \in DOMAIN log : log[i].op = "navready" /\ log[i].nav = navCount)
    /\ Range(dom) \cap oldElems = {}
  => \A e \in oldElems : ~Referenced(e)

\* C5 (Identity stability under drift): a call of getOrCreateAnchorId for an
\* element that is registered returns the registered identifier, and the
\* identifier of an element that stays registered never changes, whatever
\* happened to its text, position or fingerprint cache in between.
C5_StableIdentity ==
  [][ /\ \A k \in DOMAIN idCalls' :
           idCalls'[k].prior # NoId => idCalls'[k].id = idCalls'[k].prior
      /\ \A e \in Elems :
           anchorMap[e] # NoId /\ anchorMap'[e] # NoId => anchorMap'[e] = anchorMap[e]
    ]_vars

\* a registered element whose text no longer matches its cached fingerprint
\* is identified again
C5_Witness ==
  \E k \in DOMAIN idCalls :
    /\ idCalls[k].prior # NoId
    /\ idCalls[k].cached # idCalls[k].hash

\* C6 (No duplicate record, incremental adds): a discovery pass adds exactly
\* the valid attached elements that were not tracked when it began, reports
\* them in one 'added' batch, and no element ever has two records.
C6_NoDuplicateRecord ==
  /\ Len(messages) = Cardinality(TrackedIn(messages))
  /\ \A i \in DOMAIN log :
       log[i].op = "detect" =>
         /\ Range(log[i].elems) = ValidAttached \ log[i].before
         /\ Len(log[i].elems) = Cardinality(Range(log[i].elems))
         /\ log[i].elems # <<>> =>
              /\ i < Len(log)
              /\ log[i + 1].op = "added"
              /\ log[i + 1].elems = log[i].elems
  /\ Len(Entries("added")) =
       Len(SelectSeq(log, LAMBDA en : en.op = "detect" /\ en.elems # <<>>))

\* one message is appended to a page that was scanned before and whose
\* tracked messages are still attached: one 'added' batch of size 1
C6_Witness ==
  \E i \in DOMAIN log :
    /\ log[i].op = "added"
    /\ Len(log[i].elems) = 1
    /\ \E e \in log[i].before : Attached(e)

\* C7 (Removal): a pass that finds tracked elements detached emits exactly
\* one 'removed' batch with them, after which no line carries the identifier
\* of a removed message and getElementByAnchorId returns null for it.
C7_Removal ==
  \A i \in DOMAIN log :
    log[i].op = "cleanup" =>
      /\ Range(log[i].elems) = {e \in log[i].before : ~Attached(e)}
      /\ log[i].elems # <<>> =>
           /\ Len(Entries("removed")) = 1
           /\ Entries("removed")[1].elems = log[i].elems
      /\ \A k \in DOMAIN log[i].ids :
           log[i].ids[k] # NoId =>
             /\ log[i].ids[k] \notin LineIds
             /\ getElementByAnchorId(log[i].ids[k]) = NoElem

\* C8 (User-only anchors): right after the tracker has started the registry
\* has one entry per valid user message of the page, and a message tracked
\* with another role has neither a line nor a generator identifier.
C8_UserOnly ==
  /\ Ran("initialize") =>
       Len(messageLines) =
         Cardinality({e \in ValidAttached : getMessageRole(e) = "user"})
  /\ \A i \in DOMAIN messages :
       messages[i].role # "user" =>
         /\ injectedAnchors[messages[i].element] = NoId
         /\ anchorMap[messages[i].element] = NoId
         /\ messages[i].element \notin Range(messageElements)

\* C9 (Navigation order): handleUrlChange clears the registry before it
\* resets the tracker, and from that reset until the readiness wait ends no
\* discovery pass delivers an 'added' event.
C9_NavOrder ==
  /\ Ran("navigate") => PositionOf("clearLines") < PositionOf("clearMessages")
  /\ (navPending # {} /\ ~Ran("navready")) => ~Ran("added")

\* C10 (Navigation cancellation): a new navigation cancels the pending
\* callback of an earlier one, so at most one callback is pending, it belongs
\* to the latest navigation, and only that one ever runs its discovery.
C10_Cancel ==
  /\ \A n \in navPending : n = navCount
  /\ \A i \in DOMAIN log : log[i].op = "navready" => log[i].nav = navCount

\* the change events of the last step, in the order they were emitted
Events == SelectSeq(log, LAMBDA en : en.op \in {"added", "removed", "updated"})

\* the events follow the order given as a sequence of event types
InOrder(order) ==
  \A i, j \in DOMAIN Events :
    i < j => IndexOf(order, Events[i].op) < IndexOf(order, Events[j].op)

\* C11 (Batch order within a pass), as claimed: the change events of one
\* reconciliation pass are emitted in the order added, updated, removed.
C11_BatchOrder == Ran("pass") => InOrder(<<"added", "updated", "removed">>)

\* C11 as amended: the change events of one reconciliation pass are emitted
\* in the order added, removed, updated, one event per type at most.
C11_AddedRemovedUpdated == Ran("pass") => InOrder(<<"added", "removed", "updated">>)

\* a pass that found a tracked element detached and another one streamed
C11_Witness == Ran("pass") /\ Ran("removed") /\ Ran("updated")

\* C12 (Debounce coalescing): at most one debounce timeout is pending; a
\* reconciliation pass runs only when the debounce window has elapsed since
\* the latest observer callback, and it leaves no timeout pending, so the
\* callbacks of one burst get one pass.
C12_Coalesce ==
  /\ Cardinality(debounceTimer) <= 1
  /\ Ran("pass") =>
       /\ now - lastCallback >= DebounceTicks
       /\ debounceTimer = {}

\* a pass for a burst of callbacks that arrived at different times, less
\* than the window apart
C12_Witness ==
  /\ Ran("pass")
  /\ firstCallback < lastCallback
  /\ lastCallback - firstCallback < DebounceTicks

\* the elements for which a call of the discovery pass throws
DiscoveryFaulty == {e \in Elems : fault[e] \in {"valid", "create"}}

\* C13 (Discovery error isolation): when the validity predicate or the
\* record creation throws for a candidate, nothing is thrown out of the
\* discovery pass, and every other valid candidate that was not tracked is
\* tracked and reported in the 'added' batch of the pass.
C13_DiscoveryIsolation ==
  /\ ~Ran("throwDetect")
  /\ \A i \in DOMAIN log :
       log[i].op = "detect" =>
         /\ (ValidAttached \ log[i].before) \ DiscoveryFaulty \subseteq Range(log[i].elems)
         /\ log[i].elems # <<>> =>
              /\ i < Len(log)
              /\ log[i + 1].op = "added"
              /\ log[i + 1].elems = log[i].elems

\* the elements for which a call of injectAnchorForMessage throws
InjectFaulty == {e \in Elems : fault[e] \in {"role", "generate", "line"}}

\* C14 (Identity error isolation): no exception leaves
\* injectAnchorsForMessages, and every user message of an 'added' batch for
\* which nothing throws has its anchor after the batch: an identifier in
\* injectedAnchors and a line with that identifier.
C14_InjectIsolation ==
  /\ ~Ran("throwInject")
  /\ \A i \in DOMAIN log :
       log[i].op = "added" =>
         \A k \in DOMAIN log[i].elems :
           LET e == log[i].elems[k] IN
           (getMessageRole(e) = "user" /\ e \notin InjectFaulty) =>
             /\ injectedAnchors[e] # NoId
             /\ injectedAnchors[e] \in LineIds

\* an 'added' batch in which a call threw for one user message, was caught,
\* and a later user message of the batch got its anchor
C14_Witness ==
  /\ Ran("caught")
  /\ \E i \in DOMAIN log :
       /\ log[i].op = "added"
       /\ \E j, k \in DOMAIN log[i].elems :
            /\ j < k
            /\ log[i].elems[j] \in InjectFaulty
            /\ injectedAnchors[log[i].elems[j]] = NoId
            /\ getMessageRole(log[i].elems[k]) = "user"
            /\ injectedAnchors[log[i].elems[k]] # NoId

\* C15 (Navigation always completes): a readiness wait makes at most
\* MaxChecks checks, and every navigation whose post-navigation discovery is
\* pending gets it (the callback runs detectExistingMessages and leaves
\* navPending), whether or not a message ever appears.
C15_NavCompletes ==
  /\ [](\A n \in 1 .. MaxNav : checkCount[n] <= MaxChecks)
  /\ \A n \in 1 .. MaxNav : (n \in navPending) ~> (n \notin navPending)

\* on Claude the post-navigation discovery ran at the last readiness check,
\* on a page without a message
C15_Witness ==
  /\ platform = "claude"
  /\ dom = <<>>
  /\ \E i \in DOMAIN log :
       log[i].op = "navready" /\ checkCount[log[i].nav] = MaxChecks

\* C16 (Observation after reset): when the post-navigation discovery of the
\* latest navigation has run and the page has a conversation root, the
\* observer is attached to that root and isObserving is true.
C16_ObservingAfterReset ==
  ((\E i \in DOMAIN log : log[i].op = "navready" /\ log[i].nav = navCount)
     /\ container # NoRoot)
  => (isObserving /\ observedRoot = container)

\* C17 (Terminal destroyed state): once destroy() has run, the observer is
\* disconnected, no message is tracked, and no later step delivers a change
\* event.
C17_Destroyed ==
  phase = "destroyed" =>
    /\ ~isObserving
    /\ messages = <<>>
    /\ ~Ran("destroy") => Events = <<>>

\* C18 (stop() is not reset()): the step that hides the tab disconnects the
\* observer and leaves the tracked messages, the injected anchors, the UI
\* lines, the generator's maps and the pending timeout as they were.
C18_StopIsNotReset ==
  [][ (~hidden /\ hidden') =>
        /\ observer => (~isObserving' /\ observedRoot' = NoRoot)
        /\ messages' = messages
        /\ onMessagesChanged' = onMessagesChanged
        /\ injectedAnchors' = injectedAnchors
        /\ uiVars' = uiVars
        /\ genVars' = genVars
        /\ debounceTimer' = debounceTimer
    ]_vars

\* the tab was hidden while messages were tracked and anchored
C18_Witness ==
  /\ Ran("hide")
  /\ observer /\ ~isObserving
  /\ messages # <<>>
  /\ messageLines # <<>>
  /\ \E e \in Elems : anchorMap[e] # NoId

\* C19 (Visibility pause/resume): hiding the tab disconnects the observer;
\* showing it while the conversation root exists leaves the observer attached
\* to the root and the tracked messages equal to the valid attached ones,
\* as a discovery pass and a removal pass in that step would.
C19_VisibilityResume ==
  /\ (Ran("hide") /\ observer) => ~isObserving
  /\ (Ran("show") /\ observer /\ container # NoRoot) =>
       /\ isObserving /\ observedRoot = container
       /\ TrackedIn(messages) = ValidAttached

\* C20 (Unsupported pages): on a page whose hostname matches no registered
\* adapter, initialize() returns at once and for good: no poll or timeout
\* is armed, no component, observer, debounce timeout or history hook
\* exists, no anchor line is in the DOM, and nothing is tracked.
C20_Unsupported ==
  platform = NoPlatform =>
    /\ phase \in {"loading", "unsupported"}
    /\ ~observer /\ ~isObserving /\ observedRoot = NoRoot
    /\ ~onMessagesChanged
    /\ debounceTimer = {}
    /\ ~navListening /\ navPending = {}
    /\ messages = <<>>
    /\ messageLines = <<>>
    /\ \A e \in Elems : injectedAnchors[e] = NoId /\ anchorMap[e] = NoId
    /\ sequenceCounter = 0

\* initialize() has returned on an unsupported page, which then rendered a
\* conversation root with a message while the tab was hidden
C20_Witness ==
  /\ platform = NoPlatform
  /\ phase = "unsupported"
  /\ container # NoRoot
  /\ dom # <<>>
  /\ hidden

\* no component, observer, listener, timeout or line exists
Uninitialized ==
  /\ ~observer /\ ~isObserving /\ observedRoot = NoRoot
  /\ ~onMessagesChanged
  /\ ~navListening /\ navPending = {}
  /\ debounceTimer = {}
  /\ messages = <<>>
  /\ messageLines = <<>>
  /\ \A e \in Elems : injectedAnchors[e] = NoId /\ anchorMap[e] = NoId

\* C21 (Missing root at startup): the container poll runs at most
\* 10 s / 500 ms times; a run that finds the root initializes the components
\* (on Claude: starts the readiness wait that does), which happens at most
\* once; once the timeout has fired no poll runs any more, nothing is
\* initialized and no exception has left a handler.
C21_BoundedPolling ==
  /\ [](/\ pollCount <= MaxPolls
        /\ phase \in {"waiting", "timedout"} => Uninitialized
        /\ ~Ran("throwDetect") /\ ~Ran("throwInject"))
  /\ [][ /\ (phase = "waiting" /\ pollCount' # pollCount /\ container # NoRoot)
              => phase' = IF platform = "claude" THEN "deferred" ELSE "ready"
         /\ Ran("initialize")' =>
              (phase \in {"waiting", "deferred"} /\ phase' = "ready")
         /\ phase \in {"ready", "timedout"} => phase' \notin {"waiting", "deferred"}
         /\ phase = "timedout" => (phase' = "timedout" /\ pollCount' = pollCount)
       ]_vars

\* every run of the poll missed the root, the timeout fired, and the root
\* was rendered after that
C21_Witness ==
  /\ phase = "timedout"
  /\ pollCount = MaxPolls
  /\ container # NoRoot

\* C22 (start() with a missing root): when the detector is initialized while
\* no element matches the container selector, the discovery scan still
\* tracks every valid message and reports them in one 'added' batch, no
\* exception leaves the initialization, and the tracker is left without an
\* observer.
C22_SilentStart ==
  (Ran("initialize") /\ container = NoRoot) =>
    /\ ~Ran("throwDetect") /\ ~Ran("throwSetup")
    /\ phase = "ready"
    /\ ~observer /\ ~isObserving /\ observedRoot = NoRoot
    /\ debounceTimer = {}
    /\ onMessagesChanged
    /\ TrackedIn(messages) = ValidAttached
    /\ ValidAttached # {} =>
         /\ Len(Entries("added")) = 1
         /\ Range(Entries("added")[1].elems) = ValidAttached

\* the detector was initialized without a container on a page that shows a
\* user message
C22_Witness ==
  /\ Ran("initialize")
  /\ container = NoRoot
  /\ ~observer
  /\ messageLines # <<>>

\* C23 (onAdded is idempotent): when an 'added' event reaches a message whose
\* element is already in the injector's map, or whose identifier already
\* has a line, no second line is created and the lines, the injector's map
\* and the generator's maps are left as they were.
C23_AddedIdempotent ==
  [][ \A i \in DOMAIN log' :
        log'[i].op = "added" =>
          \A k \in DOMAIN log'[i].elems :
            LET e == log'[i].elems[k]
                id == IF anchorMap[e] # NoId THEN anchorMap[e]
                      ELSE generateAnchorId(Pack, e)
            IN  (/\ Len(log'[i].elems) = 1
                 /\ getMessageRole(e) = "user"
                 /\ \/ injectedAnchors[e] # NoId
                    \/ id \in Range(messageLines))
                => /\ messageLines' = messageLines
                   /\ injectedAnchors' = injectedAnchors
                   /\ genVars' = genVars
    ]_vars

\* the only change event of the last step was one of type op
OnlyEvent(op) == Len(Events) = 1 /\ Events[1].op = op

\* C24 (onUpdated keeps entries in place): a pass whose only event is an
\* 'updated' batch leaves the anchor lines and their order, the elements and
\* previews stored with them, the injector's map, the identifier of every
\* element and the set of tracked elements as they were; of the generator
\* only the fingerprint cache may differ.
C24_UpdatedInPlace ==
  [][ (Ran("pass") /\ OnlyEvent("updated"))' =>
        /\ messageLines' = messageLines
        /\ messageElements' = messageElements
        /\ injectedAnchors' = injectedAnchors
        /\ anchorMap' = anchorMap
        /\ idMap' = idMap
        /\ sequenceCounter' = sequenceCounter
        /\ TrackedIn(messages') = TrackedIn(messages)
    ]_vars

\* an 'updated' batch was delivered for an anchored user message whose text
\* grew from "hi" to "hello world!!", and its fingerprint was refreshed
C24_Witness ==
  /\ Ran("pass") /\ OnlyEvent("updated")
  /\ \E k \in DOMAIN Events[1].elems :
       LET e == Events[1].elems[k]
       IN  /\ injectedAnchors[e] # NoId
           /\ injectedAnchors[e] \in Range(messageLines)
           /\ text[e] = 3
           /\ contentCache[e] = hashContent(e)

\* C25 (Preview freshness): once an 'updated' event has been delivered for
\* an anchored message, the preview that hovering its line shows is the one
\* derived from the message's present content.
C25_PreviewFresh ==
  \A i \in DOMAIN log :
    log[i].op = "updated" =>
      \A k \in DOMAIN log[i].elems :
        LET e == log[i].elems[k]
            id == injectedAnchors[e]
        IN  (/\ id # NoId
             /\ id \in DOMAIN messageElements
             /\ messageElements[id] = e)
            => showTooltip(id) = extractMessageText(e)

CachedTrimmed(e) == Trim(TextTable[cachedText[e]])

\* C27 (Drift detection), as claimed: for an element with a cached
\* fingerprint hasContentChanged is true when the trimmed text now differs
\* in length by more than 10 characters from the text the fingerprint was
\* computed from, and false when the two differ by surrounding whitespace
\* only.
C27_Drift ==
  \A e \in Elems :
    (Attached(e) /\ cachedText[e] # 0) =>
      /\ Abs(Len(TrimmedText(e)) - Len(CachedTrimmed(e))) > StreamingThreshold
           => hasContentChanged(Pack, e)
      /\ TrimmedText(e) = CachedTrimmed(e) => ~hasContentChanged(Pack, e)

\* the batches the listener was called with for one type, in the last step
BatchesOf(l, type) ==
  LET evs == SelectSeq(l, LAMBDA en : en.op = type)
  IN  [i \in DOMAIN evs |-> evs[i].elems]

\* one call with the whole batch, and none for an empty batch
OneCall(batches, expected) ==
  IF expected = <<>> THEN batches = <<>> ELSE batches = <<expected>>

\* C28 (One event per batch type): a reconciliation pass with a listener
\* registered calls it once with 'added' and all valid messages of the
\* document not tracked before, once with 'removed' and all tracked messages
\* no longer attached, once with 'updated' and all remaining tracked messages
\* whose text streamed, and not at all for a type whose batch is empty.
C28_OneEventPerType ==
  [][(Ran("pass")' /\ onMessagesChanged) =>
       LET found == SelectSeq(dom, LAMBDA e : isValidMessage(e)
                                              /\ e \notin TrackedIn(messages))
           gone == ElementsOf(SelectSeq(messages, LAMBDA m : ~Attached(m.element)))
           streamed == ElementsOf(SelectSeq(messages,
                          LAMBDA m : Attached(m.element) /\ HasStreamed(m)))
       IN  /\ OneCall(BatchesOf(log', "added"), found)
           /\ OneCall(BatchesOf(log', "removed"), gone)
           /\ OneCall(BatchesOf(log', "updated"), streamed)]_vars

\* a pass that reported two changes of one type in one call
C28_Witness ==
  /\ Ran("pass")
  /\ \E i \in DOMAIN Events : Len(Events[i].elems) >= 2

\* the record the detector holds for element e
RecordOf(ms, e) == ms[CHOOSE i \in DOMAIN ms : ms[i].element = e]

\* element e is in a batch the listener got for type in the last step
Reported(l, type, e) ==
  \E i \in DOMAIN l : l[i].op = type /\ e \in Range(l[i].elems)

\* C29 (Materiality threshold): a pass reports a tracked, attached message
\* as 'updated' exactly when the length of its trimmed text differs by more
\* than 10 from the length of the recorded text; the recorded text becomes the
\* current text when the message is discovered or reported and is left as it
\* was by every other step, so small changes add up against the same record.
C29_Materiality ==
  [][/\ \A e \in TrackedIn(messages) \cap TrackedIn(messages') :
          LET old == RecordOf(messages, e).lastContent
              new == RecordOf(messages', e).lastContent
              material == Abs(Len(TrimmedText(e)) - Len(old)) > 10
          IN  /\ (Ran("pass")' /\ Attached(e)) =>
                   (Reported(log', "updated", e) <=> material)
              /\ new = IF \/ Reported(log', "updated", e)
                          \/ Reported(log', "added", e)
                         THEN TrimmedText(e)
                         ELSE old
     /\ \A d \in TrackedIn(messages') \ TrackedIn(messages) :
          /\ Reported(log', "added", d)
          /\ RecordOf(messages', d).lastContent = TrimmedText(d)]_vars

\* a pass saw "hello world!" where "hi" is recorded, a change of exactly 10,
\* and neither reported it nor refreshed the record
C29_Witness ==
  /\ Ran("pass")
  /\ \E e \in TrackedIn(messages) :
       /\ Attached(e)
       /\ text[e] = 7
       /\ RecordOf(messages, e).lastContent = TextTable[1]
       /\ ~Reported(log, "updated", e)

\* the elements registered under a fallback identifier
SeqRegistered == {e \in Elems : anchorMap[e].kind = "seq"}

\* C30 (Fallback identifier uniqueness): the fallback identifiers registered
\* in the generator are pairwise distinct and their sequence numbers lie
\* below the counter; a step that does not clear the generator never lowers
\* the counter and registers new fallback identifiers with sequence numbers
\* from the old counter on, so an identifier handed out since the last clear
\* is never handed out again.
C30_FallbackUnique ==
  /\ [](\A a \in SeqRegistered :
          /\ anchorMap[a].seq < sequenceCounter
          /\ \A b \in SeqRegistered \ {a} : anchorMap[a] # anchorMap[b])
  /\ [][Ran("clearLines")' \/
          /\ sequenceCounter' >= sequenceCounter
          /\ \A e \in Elems :
               (anchorMap'[e].kind = "seq" /\ anchorMap'[e] # anchorMap[e])
                 => anchorMap'[e].seq >= sequenceCounter]_vars

\* two elements registered with the same sibling position and the same
\* content digest, told apart by the sequence number only
C30_Witness ==
  \E a, b \in SeqRegistered :
    /\ a # b
    /\ anchorMap[a].pos = anchorMap[b].pos
    /\ anchorMap[a].hash = anchorMap[b].hash
    /\ anchorMap[a].seq # anchorMap[b].seq

\* `anchor-${elementId}`
ExtIdentifier(x) ==
  [kind |-> "ext", ext |-> x, pos |-> 0, hash |-> NoHash, seq |-> 0]

\* C31 (External-id determinism): an identifier generated for an element
\* that carries an external id is the identifier of that id alone, whatever
\* the position, the text and the counter; when the element held such an
\* identifier before the step, which cleared the generator, the identifier
\* generated for it is the same one.
C31_ExtIdDeterminism ==
  [][\A i \in DOMAIN idCalls' :
       LET c == idCalls'[i]
           e == c.element
       IN  (c.prior = NoId /\ extId[e] # NoExt) =>
             /\ c.id = ExtIdentifier(extId[e])
             /\ injectedAnchors[e].kind = "ext" => c.id = injectedAnchors[e]]_vars

\* reinjectAllAnchors cleared the generator and then generated, for a message
\* with an external id that was not first in the document, the identifier
\* the message has now
C31_Witness ==
  /\ Ran("reinject")
  /\ sequenceCounter > 0
  /\ \E i \in DOMAIN idCalls :
       LET c == idCalls[i]
       IN  /\ c.prior = NoId
           /\ c.id.kind = "ext"
           /\ c.pos > 0
           /\ injectedAnchors[c.element] = c.id

\* a producer of the location-changed signal ran in the last step
UrlReported ==
  \/ Ran("pushState") \/ Ran("popstate") \/ Ran("urlpoll")
  \/ Ran("show") /\ navListening

\* C32 (Location-change de-duplication): a step handles at most one
\* navigation; it handles one only when location.href differs from lastUrl,
\* and then lastUrl is the new URL even when the handling throws; once a
\* producer has run lastUrl is location.href, so the producers that run
\* next for the same URL handle nothing; a producer that finds the URL
\* different from lastUrl handles one navigation.
C32_Dedup ==
  /\ [](navListening => navCount <= urlChanges)
  /\ [][/\ navCount' \in {navCount, navCount + 1}
        /\ navCount' = navCount + 1 => (href' # lastUrl /\ lastUrl' = href')
        /\ navCount' = navCount => (lastUrl' = lastUrl \/ Ran("initialize")')
        /\ UrlReported' => lastUrl' = href'
        /\ (UrlReported' /\ href' # lastUrl) => navCount' = navCount + 1]_vars

\* the URL poll ran after every change of the URL had been handled, one
\* navigation each, and handled nothing
C32_Witness ==
  /\ Ran("urlpoll")
  /\ ~Ran("navigate")
  /\ urlChanges > 0
  /\ navCount = urlChanges

\* C33 (Deferred start terminates): waitForClaudeReady invokes its callback
\* exactly once, after at most 20 checks 500 ms apart: while it waits a check
\* is pending and fewer than 20 have run, the check that invokes the callback
\* is the one that initializes the components, no check runs after it, and
\* every wait ends with the callback, whatever the scrollable container does.
C33_DeferredStart ==
  /\ [](readyWait.calls <= 1)
  /\ [](phase = "deferred" =>
          readyWait.calls = 0 /\ readyWait.checks < MaxReadyChecks)
  /\ [](readyWait.calls = 1 =>
          /\ phase \in {"ready", "failed"}
          /\ readyWait.checks \in 1 .. MaxReadyChecks
          /\ readyElapsedMs(readyWait.checks) <= MaxReadyChecks * ReadyDelayMs)
  /\ [][/\ readyWait'.checks # readyWait.checks =>
             /\ phase = "deferred"
             /\ readyWait'.checks = readyWait.checks + 1
        /\ readyWait'.calls # readyWait.calls <=>
             (Ran("initialize")' /\ phase = "deferred")]_vars
  /\ (phase = "deferred") ~> (readyWait.calls = 1)

\* the callback was invoked by the twentieth check, which found no
\* scrollable container
C33_Witness ==
  /\ Ran("initialize")
  /\ readyWait.calls = 1
  /\ readyWait.checks = MaxReadyChecks
  /\ scrollable = NoScrollable

\* C34 (URL polling): at most one URL polling interval exists and none is
\* active while the document is hidden; becoming visible restarts the polling
\* and handles at once a change of the URL that happened while hidden.
C34_UrlPolling ==
  /\ urlCheckInterval <= 1
  /\ hidden => urlCheckInterval = 0
  /\ (Ran("show") /\ navListening) =>
       /\ urlCheckInterval = 1
       /\ lastUrl = href

\* C35 (No reconciliation while paused): while the document is hidden and
\* the observer is paused, no reconciliation pass runs and no change event
\* is emitted, even if mutations were observed shortly before.
C35_NoPassWhilePaused ==
  (hidden /\ observer /\ ~isObserving) =>
    /\ ~Ran("pass")
    /\ Events = <<>>

\* C36 (Anchors resolve): the identifier of every anchor line is resolved by
\* getElementByAnchorId to the element the line scrolls to, and every element
\* of the injector's map has the same identifier in the generator's
\* anchorMap, also after clearAllAnchors and reinjectAllAnchors.
C36_AnchorsResolve ==
  /\ \A id \in LineIds : getElementByAnchorId(id) = messageElements[id]
  /\ \A e \in Injected : anchorMap[e] = injectedAnchors[e]

\* C37 (Fingerprint cache bounded by registrations): every element with an
\* entry in contentCache has an identifier in anchorMap; an 'updated' event
\* for a message without anchor creates no cache entry.
C37_CacheBounded ==
  \A e \in Elems : contentCache[e] # NoHash => anchorMap[e] # NoId

\* the elements of the batches the listener got for type in the last step
BatchElems(type) ==
  UNION {Range(Events[i].elems) : i \in {j \in DOMAIN Events : Events[j].op = type}}

\* C38 (Disjoint batches): the 'added', 'removed' and 'updated' batches of
\* one reconciliation pass are pairwise disjoint: an element first tracked in
\* the pass is neither removed nor reported as updated in it, and an element
\* removed in the pass is not reported as updated.
C38_DisjointBatches ==
  Ran("pass") =>
    /\ BatchElems("added") \cap BatchElems("removed") = {}
    /\ BatchElems("added") \cap BatchElems("updated") = {}
    /\ BatchElems("removed") \cap BatchElems("updated") = {}

\* a pass that first tracked a message whose text is longer than the
\* streaming threshold and reported another message as updated
C38_Witness ==
  /\ Ran("pass")
  /\ BatchElems("updated") # {}
  /\ \E e \in BatchElems("added") : Len(TrimmedText(e)) > StreamingThreshold

\* the step is a reset: a navigation, a re-injection or the teardown
ResetRan == Ran("navigate") \/ Ran("reinject") \/ Ran("destroy")

Registered == {e \in Elems : anchorMap[e] # NoId}

\* C40 (Generator maps inverse): after any sequence of getOrCreateAnchorId,
\* handleRegeneration, removeAnchor and clear, anchorMap maps element e to
\* identifier i exactly when idMap maps i to e, and the two maps have the
\* same size.
C40_Inverse ==
  /\ \A e \in Registered : getElementByAnchorId(anchorMap[e]) = e
  /\ \A i \in DOMAIN idMap : anchorMap[idMap[i]] = i
  /\ Cardinality(Registered) = Cardinality(DOMAIN idMap)

====
